---- MODULE Spec2Model ----
(***************************************************************************)
(* Position risk and exit management of the SolScalp bot: the trade store  *)
(* (store/trades.js), the 60 s active-trade monitor                         *)
(* (monitor/activeTrades.js), the 10 s fast stop-loss monitor               *)
(* (monitor/fastStopLoss.js) and the sell executor (executeSell).           *)
(*                                                                         *)
(* The bot is one Node.js process: every async function runs atomically    *)
(* from one await to the next, and the loops started by main() interleave  *)
(* only at awaits.  Each action below is one such run-to-next-await block. *)
(*                                                                         *)
(* Numbers.  Prices are integers with the entry price 100, so that the     *)
(* percentage ((p - entry) / entry) * 100 is the exact integer p - 100.    *)
(* amount_sol is kept in tenths of a SOL and pnl_sol therefore in          *)
(* thousandths.  Time is counted in ticks of 15 minutes.                   *)
(***************************************************************************)
EXTENDS Integers, Sequences, FiniteSets, TLC

VARIABLES
    trades,       \* store/trades.js `trades`: the position ledger, in creation order
    state,        \* store/trades.js `state`: daily/total P&L, trade_count, reset date
    now,          \* Date.now(), in ticks
    alertLevel,   \* marketGuard.js currentAlertLevel
    settings,     \* loadSettings(): the environment's configuration
    cooldown,     \* cooldownStore.js document (data/cooldowns.json)
    recentExits,  \* breakout.js recentExits map
    slow,         \* the MONITOR loop: monitorActiveTrades / checkTradeExit / executeSell
    fast,         \* the FAST_SL loop: runFastStopLossCheck / sellWithMinimalToken / executeSell
    audit,        \* per position: what was submitted on chain and which ledger calls returned
    guard,        \* marketGuard.js: the guard's state besides its level, and data/btc_guard.json
    proc,         \* index.js: main's position, isRunning, the signal received, the exit
    send,         \* wallet/custodial.js: one call of signAndSendTransaction
    store,        \* store/trades.js: one call of closeTrade, and data/trades.json, data/state.json
    scan          \* the SCALP, MOMENTUM and BREAKOUT loops: the token each is buying

vars == <<trades, state, now, alertLevel, settings, cooldown, recentExits, slow, fast, audit, guard,
          proc, send, store, scan>>

-----------------------------------------------------------------------------
(* Bounds of the model *)

MaxTrades == 1
MaxNow == 1
TicksPerDay == 1

-----------------------------------------------------------------------------
(* Values *)

Null == -1

Strategies == {"scalp", "momentum", "breakout"}
Tokens == {"T1"}
AlertLevels == {"NONE", "YELLOW", "ORANGE", "RED"}

EntryPrices == {100}
Prices == {80, 90, 175, 200}
McValues == {100000, 600000}
BuyPressures == {30, 60}
TokenAmounts == {7}

NoPrice == 0

\* settings.js defaults
stop_loss_percent == 20
trailing_stop_percent == 10
scalp_exit_mc == 500000
momentum_exit_mc_min == 135000
breakout_target_gain_percent == 20
scalp_stop_loss_percent == 20
momentum_stop_loss_percent == 20
breakout_stop_loss_percent == 12
scalp_trade_amount_sol == 1
momentum_trade_amount_sol == 5
breakout_trade_amount_sol == 2

\* momentum.js constants, in ticks of 15 minutes
CONSECUTIVE_STOP_WINDOW_MS == 2
CONSECUTIVE_STOP_THRESHOLD == 2
CONSECUTIVE_STOP_PAUSE_MS == 6

Ids == 1..MaxTrades

-----------------------------------------------------------------------------
(* store/trades.js *)

toDateString(t) == t \div TicksPerDay

\* Faulty variant of resetDailyIfNeeded: the date moves on, the daily P&L stays.
resetDailyIfNeeded_KeepsDaily(st, t) ==
    IF st.daily_reset_date # toDateString(t)
    THEN [st EXCEPT !.daily_reset_date = toDateString(t)]
    ELSE st

\* resetDailyIfNeeded(): a new local day zeroes the daily P&L.
resetDailyIfNeeded(st, t) ==
    IF st.daily_reset_date # toDateString(t)
    THEN [st EXCEPT !.daily_pnl_sol = 0, !.daily_reset_date = toDateString(t)]
    ELSE st

\* isDailyLossLimitReached(limitSol): its result, the limit in thousandths of a
\* SOL like the P&L; state.daily_pnl_sol <= -Math.abs(limitSol) after the reset.
isDailyLossLimitReached(st, t, limitSol) ==
    resetDailyIfNeeded(st, t).daily_pnl_sol <= -(IF limitSol < 0 THEN -limitSol ELSE limitSol)

\* createTrade(data): the record pushed on `trades`.
NewTrade(id, data) ==
    [ id                    |-> id,
      status                |-> "active",
      exit_time             |-> Null,
      exit_price            |-> Null,
      tx_signature_exit     |-> <<>>,
      tx_signature_partial_exit |-> <<>>,
      highest_price         |-> data.entry_price,
      partial_exit_executed |-> FALSE,
      pnl_percent           |-> 0,
      pnl_sol               |-> 0,
      strategy              |-> data.strategy,
      token_address         |-> data.token_address,
      entry_price           |-> data.entry_price,
      amount_sol            |-> data.amount_sol,
      token_amount          |-> data.token_amount,
      stop_loss_percent     |-> data.stop_loss_percent ]

\* trades.findIndex(t => t.id === id); 0 stands for -1 (not found).
findIndex(tr, id) ==
    IF \E i \in 1..Len(tr) : tr[i].id = id
    THEN CHOOSE i \in 1..Len(tr) : tr[i].id = id /\ \A j \in 1..(i - 1) : tr[j].id # id
    ELSE 0

\* What a monitor reads of a position it took from getActiveTrades(): updateTrade
\* replaces the ledger's record by a new object, so the monitor's reference keeps
\* the values of the moment it was taken.
Copy(t) ==
    [ id                    |-> t.id,
      strategy              |-> t.strategy,
      token_address         |-> t.token_address,
      entry_price           |-> t.entry_price,
      amount_sol            |-> t.amount_sol,
      token_amount          |-> t.token_amount,
      stop_loss_percent     |-> t.stop_loss_percent,
      highest_price         |-> t.highest_price,
      partial_exit_executed |-> t.partial_exit_executed ]

RECURSIVE CopyAll(_)
CopyAll(tr) == IF tr = <<>> THEN <<>> ELSE <<Copy(Head(tr))>> \o CopyAll(Tail(tr))

\* trades.filter(t => t.status === 'active')
getActiveTrades(tr) == CopyAll(SelectSeq(tr, LAMBDA t : t.status = "active"))

\* Faulty variant of hasActiveTradeForToken: no position is ever found.
hasActiveTradeForToken_Never(tr, tokenAddress, strategy) == FALSE

hasActiveTradeForToken(tr, tokenAddress, strategy) ==
    \E i \in 1..Len(tr) : /\ tr[i].token_address = tokenAddress
                          /\ tr[i].status = "active"
                          /\ tr[i].strategy = strategy

\* The percentage ((price - entry) / entry) * 100 of closeTrade, checkTradeExit,
\* runFastStopLossCheck and executeSell; exact for the entry prices of the model.
PnlPercent(price, entry) == ((price - entry) * 100) \div entry

\* status: reason === 'stop_loss' ? 'stopped' : 'completed'
CloseStatus(reason) == IF reason = "stop_loss" THEN "stopped" ELSE "completed"

\* Faulty variant of ClosedRecord: the close leaves exit_time as it was.
ClosedRecord_NoExitTime(t, exitPrice, exitTxSig, reason, time) ==
    [t EXCEPT !.status = CloseStatus(reason),
              !.exit_price = exitPrice,
              !.tx_signature_exit = exitTxSig,
              !.pnl_percent = PnlPercent(exitPrice, t.entry_price),
              !.pnl_sol = t.amount_sol * PnlPercent(exitPrice, t.entry_price)]

\* closeTrade's updateTrade(id, {...}) on the record at index i.
ClosedRecord(t, exitPrice, exitTxSig, reason, time) ==
    [t EXCEPT !.status = CloseStatus(reason),
              !.exit_price = exitPrice,
              !.exit_time = time,
              !.tx_signature_exit = exitTxSig,
              !.pnl_percent = PnlPercent(exitPrice, t.entry_price),
              !.pnl_sol = t.amount_sol * PnlPercent(exitPrice, t.entry_price)]

\* closeTrade's aggregate update: resetDailyIfNeeded, then the three counters.
ClosedState(st, pnlSol, time) ==
    LET r == resetDailyIfNeeded(st, time)
    IN  [r EXCEPT !.daily_pnl_sol = r.daily_pnl_sol + pnlSol,
                  !.total_pnl_sol = r.total_pnl_sol + pnlSol,
                  !.trade_count = r.trade_count + 1]

\* Whether closeTrade(id, ...) goes past its only check, `if (!trade) throw`.
CloseTradeAccepts(tr, id) == findIndex(tr, id) # 0

-----------------------------------------------------------------------------
(* utils/cooldownStore.js, strategies/momentum.js, strategies/breakout.js *)

setStopLossCooldown(cd, tokenAddress, t) ==
    [cd EXCEPT !.stopLossCooldowns[tokenAddress] = t]

\* Faulty variant of recordStopLossForConsecutiveCheck: an entry exactly 30
\* minutes old is dropped too.
recordStopLossForConsecutiveCheck_StrictWindow(cd, t) ==
    LET recentStops == SelectSeq(Append(cd.recentStopLosses, t),
                                 LAMBDA ts : ts > t - CONSECUTIVE_STOP_WINDOW_MS)
    IN  IF Len(recentStops) >= CONSECUTIVE_STOP_THRESHOLD
        THEN [cd EXCEPT !.consecutiveStopPauseUntil = t + CONSECUTIVE_STOP_PAUSE_MS,
                        !.recentStopLosses = <<>>]
        ELSE [cd EXCEPT !.recentStopLosses = recentStops]

\* recordStopLossForConsecutiveCheck(): push now, keep the last 30 minutes, and at
\* the threshold set the pause (setConsecutiveStopPause empties the list).
recordStopLossForConsecutiveCheck(cd, t) ==
    LET recentStops == SelectSeq(Append(cd.recentStopLosses, t),
                                 LAMBDA ts : ts >= t - CONSECUTIVE_STOP_WINDOW_MS)
    IN  IF Len(recentStops) >= CONSECUTIVE_STOP_THRESHOLD
        THEN [cd EXCEPT !.consecutiveStopPauseUntil = t + CONSECUTIVE_STOP_PAUSE_MS,
                        !.recentStopLosses = <<>>]
        ELSE [cd EXCEPT !.recentStopLosses = recentStops]

recordMomentumStopLoss(cd, tokenAddress, t) ==
    recordStopLossForConsecutiveCheck(setStopLossCooldown(cd, tokenAddress, t), t)

recordBreakoutExit(re, tokenAddress, t) == [re EXCEPT ![tokenAddress] = t]

-----------------------------------------------------------------------------
(* utils/marketGuard.js: the reads the monitors use *)

isRedAlert == alertLevel = "RED"
isOrangeOrAbove == alertLevel \in {"ORANGE", "RED"}

-----------------------------------------------------------------------------
(* utils/marketGuard.js: state, restore, check cycle.  Times are in ticks of  *)
(* 15 minutes, the resolution at which the clock is observed: the five-minute *)
(* check interval is below it and counts as one tick.  A volatility sample is *)
(* kept in thousandths of a percent, rounded down; the baseline is kept as    *)
(* the sum of its six samples (six times the mean); the stable-duration       *)
(* accumulator is kept as the number of check intervals added to it (the 48th *)
(* addition of 5/60 is the first to reach 4 in double arithmetic).            *)

ALL_CLEAR_STABLE_HOURS == 48
CHECK_INTERVAL_MS == 1
PRICE_HISTORY_MS == 20
VOLATILITY_HISTORY_MS == 8
WINDOW_30M_MS == 2
WINDOW_1H_MS == 4
WINDOW_4H_MS == 16
BASELINE_SAMPLES == 6
RECENT_SAMPLES == 3
YELLOW_BTC_DROP_1H_PCT == 3
ORANGE_BTC_DROP_4H_PCT == 4
ORANGE_LIQUIDATION_USD == 150
RED_BTC_DROP_30M_PCT == 5
RED_VOLATILITY_MULTIPLIER == 10
PROXY_LIQUIDATION_USD == 200
STABLE_DROP_PCT == 1
STABLE_LIQUIDATION_USD == 50

\* The document saveGuardState writes (without savedAt), and no document.
GuardDoc(level, triggeredAt, stable, prices, vols, baseline) ==
    [ exists               |-> TRUE,
      btcPriceHistory      |-> prices,
      btcVolatilityHistory |-> vols,
      baselineVolatility   |-> baseline,
      currentAlertLevel    |-> level,
      alertTriggeredAt     |-> triggeredAt,
      stableHoursCount     |-> stable ]

NoDoc ==
    [ exists               |-> FALSE,
      btcPriceHistory      |-> <<>>,
      btcVolatilityHistory |-> <<>>,
      baselineVolatility   |-> Null,
      currentAlertLevel    |-> "NONE",
      alertTriggeredAt     |-> Null,
      stableHoursCount     |-> 0 ]

\* Faulty variant of RestoreLevel: the saved level is taken as it is.
RestoreLevel_Unchecked(saved) == saved.currentAlertLevel

\* Restore block: the level of a saved document is kept only if it is one of
\* ALERT_LEVEL's values.
RestoreLevel(saved) ==
    IF saved.exists /\ saved.currentAlertLevel \in AlertLevels
    THEN saved.currentAlertLevel ELSE "NONE"

\* Restore block: the module state after loading `saved` at time t.
RestoreGuard(saved, t) ==
    [ pc                   |-> "idle",
      btcPriceHistory      |-> SelectSeq(saved.btcPriceHistory,
                                         LAMBDA e : e.timestamp >= t - PRICE_HISTORY_MS),
      btcVolatilityHistory |-> SelectSeq(saved.btcVolatilityHistory,
                                         LAMBDA e : e.timestamp >= t - VOLATILITY_HISTORY_MS),
      baselineVolatility   |-> saved.baselineVolatility,
      alertTriggeredAt     |-> saved.alertTriggeredAt,
      stableHoursCount     |-> saved.stableHoursCount,
      lastBtcCheckAt       |-> Null,
      file                 |-> saved,
      sent                 |-> 0,
      atStart              |-> Null ]

\* saveGuardState(): the document of the state in memory.
GuardDocument(g, level) ==
    GuardDoc(level, g.alertTriggeredAt, g.stableHoursCount,
             g.btcPriceHistory, g.btcVolatilityHistory, g.baselineVolatility)

\* while (history[0].timestamp < cutoff) history.shift()
RECURSIVE ShiftOld(_, _)
ShiftOld(h, cutoff) ==
    IF h # <<>> /\ Head(h).timestamp < cutoff THEN ShiftOld(Tail(h), cutoff) ELSE h

recordBtcPrice(h, price, t) ==
    ShiftOld(Append(h, [price |-> price, timestamp |-> t]), t - PRICE_HISTORY_MS)

\* Math.abs((price - prev) / prev) * 100
ChangePct(price, prev) ==
    ((IF price >= prev THEN price - prev ELSE prev - price) * 100000) \div prev

RECURSIVE SumPct(_)
SumPct(v) == IF v = <<>> THEN 0 ELSE Head(v).changePct + SumPct(Tail(v))

\* recordBtcVolatility, the history: prices is the history with the new price in it.
VolatilityAfter(v, prices, price, t) ==
    IF Len(prices) < 2 THEN v
    ELSE ShiftOld(Append(v, [changePct |-> ChangePct(price, prices[Len(prices) - 1].price),
                             timestamp |-> t]),
                  t - VOLATILITY_HISTORY_MS)

\* recordBtcVolatility, the baseline: set while it is null or 0 and six samples exist.
BaselineAfter(baseline, v, prices) ==
    IF Len(prices) >= 2 /\ baseline \in {Null, 0} /\ Len(v) >= BASELINE_SAMPLES
    THEN SumPct(SubSeq(v, 1, BASELINE_SAMPLES))
    ELSE baseline

\* getBtcDropOverWindow: the drop ((oldest - newest) / oldest) * 100 as a fraction.
getBtcDropOverWindow(prices, t, windowMs) ==
    LET windowEntries == SelectSeq(prices, LAMBDA e : e.timestamp >= t - windowMs) IN
    IF Len(prices) < 2 \/ Len(windowEntries) < 2 THEN [num |-> 0, den |-> 1]
    ELSE [num |-> (windowEntries[1].price - windowEntries[Len(windowEntries)].price) * 100,
          den |-> windowEntries[1].price]

DropAtLeast(drop, pct) == drop.num >= pct * drop.den

fetchHourlyLiquidations(prices, t) ==
    IF DropAtLeast(getBtcDropOverWindow(prices, t, WINDOW_4H_MS), ORANGE_BTC_DROP_4H_PCT)
    THEN PROXY_LIQUIDATION_USD ELSE 0

\* volatilityMultiplier >= RED_VOLATILITY_MULTIPLIER with a baseline set:
\* mean(last 3 samples) / baseline, multiplied out.
VolatilitySpiked(baseline, v) ==
    LET recent == SubSeq(v, IF Len(v) > RECENT_SAMPLES THEN Len(v) - RECENT_SAMPLES + 1 ELSE 1, Len(v)) IN
    /\ baseline \notin {Null, 0}
    /\ baseline > 0
    /\ v # <<>>
    /\ SumPct(recent) * BASELINE_SAMPLES >= RED_VOLATILITY_MULTIPLIER * baseline * Len(recent)

\* Faulty variant of ThresholdLevel: YELLOW is tried first.
ThresholdLevel_YellowFirst(prices, v, baseline, t) ==
    IF DropAtLeast(getBtcDropOverWindow(prices, t, WINDOW_1H_MS), YELLOW_BTC_DROP_1H_PCT)
    THEN "YELLOW"
    ELSE IF \/ DropAtLeast(getBtcDropOverWindow(prices, t, WINDOW_30M_MS), RED_BTC_DROP_30M_PCT)
            \/ VolatilitySpiked(baseline, v)
         THEN "RED"
    ELSE IF fetchHourlyLiquidations(prices, t) >= ORANGE_LIQUIDATION_USD THEN "ORANGE"
    ELSE "NONE"

\* runMarketGuardCheck's thresholds in their order; "NONE" when none matches.
ThresholdLevel(prices, v, baseline, t) ==
    IF \/ DropAtLeast(getBtcDropOverWindow(prices, t, WINDOW_30M_MS), RED_BTC_DROP_30M_PCT)
       \/ VolatilitySpiked(baseline, v)
    THEN "RED"
    ELSE IF fetchHourlyLiquidations(prices, t) >= ORANGE_LIQUIDATION_USD THEN "ORANGE"
    ELSE IF DropAtLeast(getBtcDropOverWindow(prices, t, WINDOW_1H_MS), YELLOW_BTC_DROP_1H_PCT)
         THEN "YELLOW"
    ELSE "NONE"

\* checkIfStable's isStable
IsStable(prices, t) ==
    /\ ~DropAtLeast(getBtcDropOverWindow(prices, t, WINDOW_1H_MS), STABLE_DROP_PCT)
    /\ ~DropAtLeast(getBtcDropOverWindow(prices, t, WINDOW_30M_MS), STABLE_DROP_PCT)
    /\ fetchHourlyLiquidations(prices, t) < STABLE_LIQUIDATION_USD

-----------------------------------------------------------------------------
(* monitor/activeTrades.js: rule evaluation *)

NoSell == [fire |-> FALSE, reason |-> "none", sellPercent |-> 0]
Sell(reason, sellPercent) == [fire |-> TRUE, reason |-> reason, sellPercent |-> sellPercent]

\* Faulty variant of StopLossOf: the threshold is taken twice as deep.
StopLossOf_Doubled(trade) ==
    2 * (IF trade.stop_loss_percent # 0 THEN trade.stop_loss_percent ELSE settings.stop_loss_percent)

\* trade.stop_loss_percent || settings.stop_loss_percent
StopLossOf(trade) ==
    IF trade.stop_loss_percent # 0 THEN trade.stop_loss_percent ELSE settings.stop_loss_percent

\* pnlPercent <= -(stop * 0.5), without the fraction
TightenedStopHit(trade, pnlPercent) == 2 * pnlPercent <= -StopLossOf(trade)

\* dropFromHigh <= -settings.trailing_stop_percent && pnlPercent > 0, with
\* dropFromHigh = ((currentPrice - highest) / highest) * 100 multiplied out
TrailingStopHit(trade, currentPrice, pnlPercent) ==
    /\ settings.trailing_stop_enabled
    /\ trade.highest_price # 0
    /\ (currentPrice - trade.highest_price) * 100
          <= -(settings.trailing_stop_percent * trade.highest_price)
    /\ pnlPercent > 0

checkScalpExit(trade, token, pnlPercent) ==
    IF ~trade.partial_exit_executed /\ pnlPercent >= 70 THEN Sell("partial_target", 80)
    ELSE IF trade.partial_exit_executed /\ pnlPercent >= 100 THEN Sell("final_target", 100)
    ELSE IF token.market_cap >= settings.scalp_exit_mc
         THEN Sell("mc_target", IF trade.partial_exit_executed THEN 100 ELSE 80)
    ELSE NoSell

checkMomentumExit(trade, token, pnlPercent) ==
    IF token.market_cap >= settings.momentum_exit_mc_min THEN Sell("mc_target", 100) ELSE NoSell

checkBreakoutExit(trade, token, pnlPercent) ==
    IF pnlPercent >= settings.breakout_target_gain_percent THEN Sell("target", 100)
    ELSE IF token.buy_pressure < 40 /\ pnlPercent > 0 THEN Sell("sell_pressure", 100)
    ELSE NoSell

\* Faulty variant of SlowRule: the RED force-close is tried after the stop loss.
SlowRule_RedLast(trade, token) ==
    LET pnlPercent == PnlPercent(token.price_usd, trade.entry_price) IN
    IF isOrangeOrAbove /\ trade.strategy = "momentum" /\ TightenedStopHit(trade, pnlPercent)
         THEN Sell("market_guard_orange", 100)
    ELSE IF TrailingStopHit(trade, token.price_usd, pnlPercent) THEN Sell("trailing_stop", 100)
    ELSE IF pnlPercent <= -StopLossOf(trade) THEN Sell("stop_loss", 100)
    ELSE IF isRedAlert /\ trade.strategy = "momentum" THEN Sell("market_guard_red", 100)
    ELSE IF trade.strategy = "scalp" THEN checkScalpExit(trade, token, pnlPercent)
    ELSE IF trade.strategy = "momentum" THEN checkMomentumExit(trade, token, pnlPercent)
    ELSE IF trade.strategy = "breakout" THEN checkBreakoutExit(trade, token, pnlPercent)
    ELSE NoSell

\* checkTradeExit after the ledger update: the first rule that matches, on the
\* monitor's own copy `trade` of the position.
SlowRule(trade, token) ==
    LET pnlPercent == PnlPercent(token.price_usd, trade.entry_price) IN
    IF isRedAlert /\ trade.strategy = "momentum" THEN Sell("market_guard_red", 100)
    ELSE IF isOrangeOrAbove /\ trade.strategy = "momentum" /\ TightenedStopHit(trade, pnlPercent)
         THEN Sell("market_guard_orange", 100)
    ELSE IF TrailingStopHit(trade, token.price_usd, pnlPercent) THEN Sell("trailing_stop", 100)
    ELSE IF pnlPercent <= -StopLossOf(trade) THEN Sell("stop_loss", 100)
    ELSE IF trade.strategy = "scalp" THEN checkScalpExit(trade, token, pnlPercent)
    ELSE IF trade.strategy = "momentum" THEN checkMomentumExit(trade, token, pnlPercent)
    ELSE IF trade.strategy = "breakout" THEN checkBreakoutExit(trade, token, pnlPercent)
    ELSE NoSell

\* Faulty variant of FastRule: the stop loss is tried before the guard's rules.
FastRule_StopFirst(trade, currentPrice) ==
    LET pnlPercent == PnlPercent(currentPrice, trade.entry_price) IN
    IF pnlPercent <= -StopLossOf(trade) THEN Sell("stop_loss", 100)
    ELSE IF isRedAlert /\ trade.strategy = "momentum" THEN Sell("market_guard_red", 100)
    ELSE IF isOrangeOrAbove /\ trade.strategy = "momentum" /\ TightenedStopHit(trade, pnlPercent)
         THEN Sell("market_guard_orange", 100)
    ELSE NoSell

\* runFastStopLossCheck's loop body: rules 1, 2 and 4 only, always 100%.
FastRule(trade, currentPrice) ==
    LET pnlPercent == PnlPercent(currentPrice, trade.entry_price) IN
    IF isRedAlert /\ trade.strategy = "momentum" THEN Sell("market_guard_red", 100)
    ELSE IF isOrangeOrAbove /\ trade.strategy = "momentum" /\ TightenedStopHit(trade, pnlPercent)
         THEN Sell("market_guard_orange", 100)
    ELSE IF pnlPercent <= -StopLossOf(trade) THEN Sell("stop_loss", 100)
    ELSE NoSell

\* Faulty variant of CooldownAfter: the RED force-close is recorded as a stop loss.
CooldownAfter_AlsoRed(d, trade) ==
    IF d.fire /\ d.reason \in {"market_guard_red", "market_guard_orange", "stop_loss"}
       /\ trade.strategy = "momentum"
    THEN recordMomentumStopLoss(cooldown, trade.token_address, now)
    ELSE cooldown

\* The cooldown writes both monitors make before they call executeSell.
CooldownAfter(d, trade) ==
    IF d.fire /\ d.reason \in {"market_guard_orange", "stop_loss"} /\ trade.strategy = "momentum"
    THEN recordMomentumStopLoss(cooldown, trade.token_address, now)
    ELSE cooldown

RecentExitsAfter(d, trade) ==
    IF d.fire /\ d.reason = "stop_loss" /\ trade.strategy = "breakout"
    THEN recordBreakoutExit(recentExits, trade.token_address, now)
    ELSE recentExits

-----------------------------------------------------------------------------
(* monitor/activeTrades.js: executeSell *)

\* Faulty variant of Floor80: Math.ceil in place of Math.floor.
Floor80_Ceil(n) == (n * 8 + 9) \div 10

\* Math.floor(trade.token_amount * 0.8)
Floor80(n) == (n * 8) \div 10

\* const tokensToSell = reason === 'partial_target' ? floor(amount * 0.8) : amount
TokensToSell(trade, reason) ==
    IF reason = "partial_target" THEN Floor80(trade.token_amount) ELSE trade.token_amount

\* What executeSell holds across its awaits: its arguments and the two quantities
\* it computed from its copy of the position before the first await.
SellOrder(trade, price_usd, d) ==
    [ id              |-> trade.id,
      reason          |-> d.reason,
      sellPercent     |-> d.sellPercent,
      price_usd       |-> price_usd,
      tokensToSell    |-> TokensToSell(trade, d.reason),
      remainingTokens |-> trade.token_amount - TokensToSell(trade, d.reason),
      broadcast       |-> FALSE ]

NoOrder ==
    [ id |-> 0, reason |-> "none", sellPercent |-> 0, price_usd |-> 0,
      tokensToSell |-> 0, remainingTokens |-> 0, broadcast |-> FALSE ]

\* The branch executeSell takes once the transaction is confirmed.
IsPartialOrder(o) == o.reason = "partial_target"

\* updateTrade(trade.id, {partial_exit_executed: true, token_amount, tx_signature_partial_exit})
PartialRecord(t, o, sig) ==
    [t EXCEPT !.partial_exit_executed = TRUE,
              !.token_amount = o.remainingTokens,
              !.tx_signature_partial_exit = sig]

\* The ledger after a confirmed sell.
LedgerAfterSell(tr, o, sig, time) ==
    LET i == findIndex(tr, o.id) IN
    IF i = 0 THEN tr
    ELSE IF IsPartialOrder(o) THEN [tr EXCEPT ![i] = PartialRecord(tr[i], o, sig)]
    ELSE IF CloseTradeAccepts(tr, o.id)
         THEN [tr EXCEPT ![i] = ClosedRecord(tr[i], o.price_usd, sig, o.reason, time)]
    ELSE tr

\* The aggregate state after a confirmed sell: only closeTrade touches it.
StateAfterSell(tr, st, o, time) ==
    LET i == findIndex(tr, o.id) IN
    IF i = 0 \/ IsPartialOrder(o) \/ ~CloseTradeAccepts(tr, o.id) THEN st
    ELSE ClosedState(st, tr[i].amount_sol * PnlPercent(o.price_usd, tr[i].entry_price), time)

\* Faulty variant of LedgerAfterFailedSell: the ledger is updated before the
\* transaction is confirmed, and the failure does not undo it.
LedgerAfterFailedSell_Optimistic(tr, o) == LedgerAfterSell(tr, o, <<>>, now)

\* The ledger and the aggregate state after the catch block of executeSell.
LedgerAfterFailedSell(tr, o) == tr
StateAfterFailedSell(st, o) == st

-----------------------------------------------------------------------------
(* index.js: main, runStrategyLoop, the signal handlers *)

\* main before `isRunning = true` (it awaits startApiServer, getWalletBalance
\* and notify.botStarted), and after it has called runStrategyLoop for each loop.
ProcStarting == [main |-> "starting", isRunning |-> FALSE, signalled |-> FALSE, exited |-> FALSE]
ProcRunning == [main |-> "running", isRunning |-> TRUE, signalled |-> FALSE, exited |-> FALSE]

\* process.exit has not been called.
Alive == ~proc.exited

\* The loops exist: code of a cycle can run.
LoopsStarted == Alive /\ proc.main = "running"

\* runStrategyLoop: while (isRunning) { await fn(); await sleep(intervalMs) }
CycleMayStart == LoopsStarted /\ proc.isRunning

-----------------------------------------------------------------------------
(* State *)

DefaultSettings(trailing) ==
    [ stop_loss_percent            |-> stop_loss_percent,
      trailing_stop_enabled        |-> trailing,
      trailing_stop_percent        |-> trailing_stop_percent,
      scalp_exit_mc                |-> scalp_exit_mc,
      momentum_exit_mc_min         |-> momentum_exit_mc_min,
      breakout_target_gain_percent |-> breakout_target_gain_percent,
      momentum_enabled             |-> TRUE,
      paper_trading                |-> FALSE ]

\* The data each scanner passes to createTrade.
TradeData(strategy, tokenAddress, entryPrice, tokenAmount) ==
    [ strategy          |-> strategy,
      token_address     |-> tokenAddress,
      entry_price       |-> entryPrice,
      token_amount      |-> tokenAmount,
      amount_sol        |-> CASE strategy = "scalp"    -> scalp_trade_amount_sol
                              [] strategy = "momentum" -> momentum_trade_amount_sol
                              [] OTHER                 -> breakout_trade_amount_sol,
      stop_loss_percent |-> CASE strategy = "scalp"    -> scalp_stop_loss_percent
                              [] strategy = "momentum" -> momentum_stop_loss_percent
                              [] OTHER                 -> breakout_stop_loss_percent ]

NoAudit ==
    [original |-> 0, submitted |-> 0, sold |-> 0, closeCalls |-> 0, closeOk |-> 0, failed |-> FALSE]

\* No call of signAndSendTransaction is being followed.
NoTx == "none"
IdleSend == [pc |-> "idle", tx |-> NoTx, attempt |-> 0, log |-> <<>>, slept |-> <<>>, result |-> NoTx]

\* In the specifications that follow neither the documents of store/trades.js
\* nor the scanners' evaluations: closeTrade is one step of the sell that calls
\* it, and an entry is the one step CreateTrade.
StoreUnobserved == [pc |-> "unobserved"]
ScanUnobserved == [pc |-> "unobserved"]

IdleSlow == [pc |-> "idle", active |-> <<>>, order |-> NoOrder]
IdleFast == [pc |-> "idle", active |-> <<>>, prices |-> <<>>, order |-> NoOrder]

\* data/btc_guard.json as the process may find it at startup: absent or
\* unreadable; written more than five hours before by a run one or two stable
\* cycles before the all-clear, or in the cycle that raised ORANGE; holding a
\* level that is none of ALERT_LEVEL's values; or written three quarters of an
\* hour before by a run that had seen the same price in six cycles.
OldPrices == <<[price |-> 1000, timestamp |-> -26], [price |-> 955, timestamp |-> -25]>>
OldVols == <<[changePct |-> ChangePct(955, 1000), timestamp |-> -25]>>
CalmPrices == <<[price |-> 955, timestamp |-> -26], [price |-> 955, timestamp |-> -25]>>
CalmVols == <<[changePct |-> ChangePct(955, 955), timestamp |-> -25]>>
CalmBaseline == BASELINE_SAMPLES * 100
FlatPrices == [i \in 1..BASELINE_SAMPLES |-> [price |-> 1000, timestamp |-> i - 9]]
FlatVols == [i \in 1..(BASELINE_SAMPLES - 1) |-> [changePct |-> ChangePct(1000, 1000), timestamp |-> i - 8]]

SavedDocs ==
    { NoDoc,
      GuardDoc("YELLOW", -45, ALL_CLEAR_STABLE_HOURS - 2, CalmPrices, CalmVols, CalmBaseline),
      GuardDoc("RED", -45, ALL_CLEAR_STABLE_HOURS - 1, CalmPrices, CalmVols, Null),
      GuardDoc("ORANGE", -25, 0, OldPrices, OldVols, Null),
      GuardDoc("SEVERE", -25, 0, OldPrices, OldVols, Null),
      GuardDoc("NONE", Null, 0, FlatPrices, FlatVols, Null) }

\* In Spec the guard is followed by its level alone (restored at startup,
\* changed by GuardSetAlert); GuardSpec follows the rest of its state.
GuardUnobserved == [pc |-> "unobserved"]

\* The stores, the clock and the monitors at startup.
InitBot ==
    /\ trades = <<>>
    /\ state = [daily_pnl_sol |-> 0, daily_reset_date |-> toDateString(0),
                total_pnl_sol |-> 0, trade_count |-> 0]
    /\ now = 0
    /\ cooldown = [stopLossCooldowns |-> [t \in Tokens |-> Null],
                   consecutiveStopPauseUntil |-> Null,
                   recentStopLosses |-> <<>>]
    /\ recentExits = [t \in Tokens |-> Null]
    /\ slow = IdleSlow
    /\ fast = IdleFast
    /\ audit = [i \in Ids |-> NoAudit]
    /\ send = IdleSend
    /\ store = StoreUnobserved
    /\ scan = ScanUnobserved

Init ==
    /\ InitBot
    /\ alertLevel \in {RestoreLevel(saved) : saved \in SavedDocs}
    /\ settings \in {DefaultSettings(b) : b \in BOOLEAN}
    /\ guard = GuardUnobserved
    /\ proc = ProcRunning

-----------------------------------------------------------------------------
(* Environment: the clock, the market guard, the entry scanners *)

Tick ==
    /\ now < MaxNow
    /\ now' = now + 1
    /\ UNCHANGED <<trades, state, alertLevel, settings, cooldown, recentExits, slow, fast, audit, guard, proc, send, store, scan>>

\* getState() of the status endpoint and isDailyLossLimitReached() of the
\* scanners both start with resetDailyIfNeeded().
GetState ==
    /\ Alive
    /\ state' = resetDailyIfNeeded(state, now)
    /\ UNCHANGED <<trades, now, alertLevel, settings, cooldown, recentExits, slow, fast, audit, guard, proc, send, store, scan>>

\* setAlert(level, reason) of a guard check cycle: any change of level.
GuardSetAlert(level) ==
    /\ LoopsStarted
    /\ settings.momentum_enabled
    /\ level # alertLevel
    /\ alertLevel' = level
    /\ UNCHANGED <<trades, state, now, settings, cooldown, recentExits, slow, fast, audit, guard, proc, send, store, scan>>

\* A scanner's evaluate...Token / execute...Buy ending in createTrade(data): the
\* duplicate check, then the position is appended as active.
CreateTrade(strategy, tokenAddress, entryPrice, tokenAmount) ==
    /\ LoopsStarted
    /\ Len(trades) < MaxTrades
    /\ ~hasActiveTradeForToken(trades, tokenAddress, strategy)
    /\ LET id == Len(trades) + 1 IN
       /\ trades' = Append(trades, NewTrade(id, TradeData(strategy, tokenAddress, entryPrice, tokenAmount)))
       /\ audit' = [audit EXCEPT ![id] = [NoAudit EXCEPT !.original = tokenAmount]]
    /\ UNCHANGED <<state, now, alertLevel, settings, cooldown, recentExits, slow, fast, guard, proc, send, store, scan>>

-----------------------------------------------------------------------------
(* executeSell's outcomes, shared by both monitors *)

\* The reference signAndSendTransaction returns for this submission.
SigOf(who, o) == <<who, o.id, o.reason>>

AuditAfterSell(au, tr, o) ==
    [au EXCEPT ![o.id].submitted = @ + 1,
               ![o.id].sold = @ + o.tokensToSell,
               ![o.id].closeCalls = IF IsPartialOrder(o) THEN @ ELSE @ + 1,
               ![o.id].closeOk = IF ~IsPartialOrder(o) /\ CloseTradeAccepts(tr, o.id)
                                 THEN @ + 1 ELSE @]

AuditAfterFailedSell(au, o) == [au EXCEPT ![o.id].failed = TRUE]

\* buildSellTransaction resolved, signAndSendTransaction confirmed: the ledger update.
SellConfirmed(who, o) ==
    /\ trades' = LedgerAfterSell(trades, o, SigOf(who, o), now)
    /\ state' = StateAfterSell(trades, state, o, now)
    /\ audit' = AuditAfterSell(audit, trades, o)

\* buildSellTransaction or signAndSendTransaction threw: the catch block logs.
SellFailed(o) ==
    /\ trades' = LedgerAfterFailedSell(trades, o)
    /\ state' = StateAfterFailedSell(state, o)
    /\ audit' = AuditAfterFailedSell(audit, o)

-----------------------------------------------------------------------------
(* The MONITOR loop *)

\* The next position of the cycle's list, or the end of the cycle.
SlowAdvance ==
    IF Len(slow.active) > 1
    THEN [pc |-> "fetch", active |-> Tail(slow.active), order |-> NoOrder]
    ELSE IdleSlow

\* monitorActiveTrades up to the first await fetchTokenData.
SlowStart ==
    /\ CycleMayStart
    /\ slow.pc = "idle"
    /\ getActiveTrades(trades) # <<>>
    /\ slow' = [pc |-> "fetch", active |-> getActiveTrades(trades), order |-> NoOrder]
    /\ UNCHANGED <<trades, state, now, alertLevel, settings, cooldown, recentExits, fast, audit, guard, proc, send, store, scan>>

\* fetchTokenData returned null or threw: the position is skipped this cycle.
SlowNoData ==
    /\ Alive
    /\ slow.pc = "fetch"
    /\ slow' = SlowAdvance
    /\ UNCHANGED <<trades, state, now, alertLevel, settings, cooldown, recentExits, fast, audit, guard, proc, send, store, scan>>

\* Faulty variant of RaisesHighest: highest_price follows every price change.
RaisesHighest_AnyChange(trade, currentPrice) ==
    currentPrice # (IF trade.highest_price # 0 THEN trade.highest_price ELSE trade.entry_price)

\* checkTradeExit's updateTrade: highest_price only on a new high of the copy.
RaisesHighest(trade, currentPrice) ==
    currentPrice > (IF trade.highest_price # 0 THEN trade.highest_price ELSE trade.entry_price)

LedgerAfterCheck(tr, trade, currentPrice) ==
    LET i == findIndex(tr, trade.id)
        pnlPercent == PnlPercent(currentPrice, trade.entry_price)
    IN  IF RaisesHighest(trade, currentPrice)
        THEN [tr EXCEPT ![i].highest_price = currentPrice, ![i].pnl_percent = pnlPercent]
        ELSE [tr EXCEPT ![i].pnl_percent = pnlPercent]

\* checkTradeExit from the return of fetchTokenData to the first await of
\* executeSell (or to the end, when no rule fires).
SlowCheck(price, mc, bp) ==
    /\ Alive
    /\ slow.pc = "fetch"
    /\ LET trade == Head(slow.active)
           token == [price_usd |-> price, market_cap |-> mc, buy_pressure |-> bp]
           d     == SlowRule(trade, token)
       IN  /\ trades' = LedgerAfterCheck(trades, trade, price)
           /\ cooldown' = CooldownAfter(d, trade)
           /\ recentExits' = RecentExitsAfter(d, trade)
           /\ slow' = IF d.fire
                      THEN [slow EXCEPT !.pc = "sell", !.order = SellOrder(trade, price, d)]
                      ELSE SlowAdvance
    /\ UNCHANGED <<state, now, alertLevel, settings, fast, audit, guard, proc, send, store, scan>>

\* executeSell's awaits (buildSellTransaction: quote and swap build;
\* signAndSendTransaction: sign, broadcast, confirm) touch no state of the bot
\* between them, so the sell is one pending step with two outcomes.
SlowSellFail ==
    /\ Alive
    /\ slow.pc = "sell"
    /\ SellFailed(slow.order)
    /\ slow' = SlowAdvance
    /\ UNCHANGED <<now, alertLevel, settings, cooldown, recentExits, fast, guard, proc, send, store, scan>>

SlowSellOk ==
    /\ Alive
    /\ slow.pc = "sell"
    /\ SellConfirmed("slow", slow.order)
    /\ slow' = SlowAdvance
    /\ UNCHANGED <<now, alertLevel, settings, cooldown, recentExits, fast, guard, proc, send, store, scan>>

-----------------------------------------------------------------------------
(* The FAST_SL loop *)

Mints(active) == {active[i].token_address : i \in 1..Len(active)}

\* The rule of one loop iteration: `if (!currentPrice) continue`, then FastRule.
FastDecision(trade, prices) ==
    IF prices[trade.token_address] = NoPrice THEN NoSell
    ELSE FastRule(trade, prices[trade.token_address])

\* The for loop runs without an await over the positions no rule fires for.
RECURSIVE FastScan(_, _)
FastScan(active, prices) ==
    IF active = <<>> THEN <<>>
    ELSE IF FastDecision(Head(active), prices).fire THEN active
    ELSE FastScan(Tail(active), prices)

\* The loop from `rest` on, up to the first await of executeSell or to the end.
FastLoop(rest, prices) ==
    LET active == FastScan(rest, prices) IN
    IF active = <<>>
    THEN /\ fast' = [pc |-> "idle", active |-> <<>>, prices |-> <<>>, order |-> NoOrder]
         /\ UNCHANGED <<cooldown, recentExits>>
    ELSE LET trade == Head(active)
             d     == FastDecision(trade, prices)
         IN  /\ cooldown' = CooldownAfter(d, trade)
             /\ recentExits' = RecentExitsAfter(d, trade)
             /\ fast' = [pc |-> "sell", active |-> active, prices |-> prices,
                         order |-> SellOrder(trade, prices[trade.token_address], d)]

\* runFastStopLossCheck up to await fetchJupiterPrices(mints).
FastStart ==
    /\ CycleMayStart
    /\ fast.pc = "idle"
    /\ getActiveTrades(trades) # <<>>
    /\ fast' = [IdleFast EXCEPT !.pc = "prices", !.active = getActiveTrades(trades)]
    /\ UNCHANGED <<trades, state, now, alertLevel, settings, cooldown, recentExits, slow, audit, guard, proc, send, store, scan>>

\* fetchJupiterPrices threw: the cycle is skipped.
FastPricesFail ==
    /\ Alive
    /\ fast.pc = "prices"
    /\ fast' = IdleFast
    /\ UNCHANGED <<trades, state, now, alertLevel, settings, cooldown, recentExits, slow, audit, guard, proc, send, store, scan>>

\* fetchJupiterPrices returned a price, or none, for each mint asked for, and
\* the for loop starts.
FastPrices(prices) ==
    /\ Alive
    /\ fast.pc = "prices"
    /\ FastLoop(fast.active, prices)
    /\ UNCHANGED <<trades, state, now, alertLevel, settings, slow, audit, guard, proc, send, store, scan>>

\* The sell threw: executeSell's catch logs, and the loop goes on at once.
FastSellFail ==
    /\ Alive
    /\ fast.pc = "sell"
    /\ SellFailed(fast.order)
    /\ FastLoop(Tail(fast.active), fast.prices)
    /\ UNCHANGED <<now, alertLevel, settings, slow, guard, proc, send, store, scan>>

\* The sell is confirmed: the ledger update, then await notify.
FastSellOk ==
    /\ Alive
    /\ fast.pc = "sell"
    /\ SellConfirmed("fast", fast.order)
    /\ fast' = [fast EXCEPT !.pc = "notify", !.active = Tail(fast.active), !.order = NoOrder]
    /\ UNCHANGED <<now, alertLevel, settings, cooldown, recentExits, slow, guard, proc, send, store, scan>>

\* notify returned: the for loop goes on.
FastNext ==
    /\ Alive
    /\ fast.pc = "notify"
    /\ FastLoop(fast.active, fast.prices)
    /\ UNCHANGED <<trades, state, now, alertLevel, settings, slow, audit, guard, proc, send, store, scan>>

-----------------------------------------------------------------------------
(* Specification *)

\* The steps of the bot when the feeds report prices from P.
NextWith(P) ==
    \/ Tick
    \/ GetState
    \/ \E level \in AlertLevels : GuardSetAlert(level)
    \/ \E s \in Strategies, t \in Tokens, e \in EntryPrices, a \in TokenAmounts :
          CreateTrade(s, t, e, a)
    \/ SlowStart
    \/ SlowNoData
    \/ \E p \in P, mc \in McValues, bp \in BuyPressures : SlowCheck(p, mc, bp)
    \/ SlowSellFail
    \/ SlowSellOk
    \/ FastStart
    \/ FastPricesFail
    \/ \E prices \in [Mints(fast.active) -> P \cup {NoPrice}] : FastPrices(prices)
    \/ FastSellFail
    \/ FastSellOk
    \/ FastNext

Next == NextWith(Prices)

Spec == Init /\ [][Next]_vars

\* Prices at or below every position's stop-loss threshold.
LowPrices == {p \in Prices : \A e \in EntryPrices : PnlPercent(p, e) <= -stop_loss_percent}

NextLow == NextWith(LowPrices)

\* The loops of runStrategyLoop keep running; every await returns; price lookups
\* and sells that are retried forever succeed at some point.
Fairness ==
    /\ WF_vars(SlowStart)
    /\ WF_vars(SlowNoData \/ \E p \in LowPrices, mc \in McValues, bp \in BuyPressures : SlowCheck(p, mc, bp))
    /\ SF_vars(\E p \in LowPrices, mc \in McValues, bp \in BuyPressures : SlowCheck(p, mc, bp))
    /\ WF_vars(SlowSellOk \/ SlowSellFail)
    /\ SF_vars(SlowSellOk)
    /\ WF_vars(FastStart)
    /\ WF_vars(FastPricesFail \/ \E prices \in [Mints(fast.active) -> LowPrices \cup {NoPrice}] : FastPrices(prices))
    /\ WF_vars(FastSellOk \/ FastSellFail)
    /\ WF_vars(FastNext)

LiveSpec == Init /\ [][NextLow]_vars /\ Fairness

-----------------------------------------------------------------------------
(* The market guard's check cycle, called by the momentum scanner *)

\* Bound of the guard's clock, and the reference prices the feed reports.
MaxGuardNow == 3
BtcPrices == {940, 955, 965, 1000}

GuardInit ==
    /\ InitBot
    /\ settings = DefaultSettings(FALSE)
    /\ \E saved \in SavedDocs :
          /\ alertLevel = RestoreLevel(saved)
          /\ guard = RestoreGuard(saved, 0)
    /\ proc = ProcRunning

GuardTick ==
    /\ now < MaxGuardNow
    /\ now' = now + 1
    /\ UNCHANGED <<trades, state, alertLevel, settings, cooldown, recentExits, slow, fast, audit, guard, proc, send, store, scan>>

\* Faulty variant of RateLimited: only a clock that went backwards holds a call back.
RateLimited_NoInterval == guard.lastBtcCheckAt # Null /\ now - guard.lastBtcCheckAt < 0

\* if (lastBtcCheckAt && now - lastBtcCheckAt < CHECK_INTERVAL_MS) return
\* (a time stamp of Date.now() is never 0, so only null is falsy)
RateLimited == guard.lastBtcCheckAt # Null /\ now - guard.lastBtcCheckAt < CHECK_INTERVAL_MS

\* No cycle is running: none has run yet or the last one returned, at the end
\* ("idle") or because the price could not be fetched ("skipped").
GuardIdle == guard.pc \in {"idle", "skipped"}

\* The guard's state as a cycle finds it: the level and the module's variables,
\* the document on disk, the notifications sent so far.
GuardSnapshot(g, level) ==
    [ currentAlertLevel    |-> level,
      alertTriggeredAt     |-> g.alertTriggeredAt,
      btcPriceHistory      |-> g.btcPriceHistory,
      btcVolatilityHistory |-> g.btcVolatilityHistory,
      baselineVolatility   |-> g.baselineVolatility,
      stableHoursCount     |-> g.stableHoursCount,
      file                 |-> g.file,
      sent                 |-> g.sent,
      lastBtcCheckAt       |-> g.lastBtcCheckAt ]

\* monitorMomentumOpportunities up to its call of runMarketGuardCheck(), which
\* called within the interval returns at once.
GuardRateLimited ==
    /\ CycleMayStart
    /\ settings.momentum_enabled
    /\ GuardIdle
    /\ RateLimited
    /\ UNCHANGED vars

\* monitorMomentumOpportunities up to its call of runMarketGuardCheck(), and
\* that up to await fetchBtcPrice().
GuardStart ==
    /\ CycleMayStart
    /\ settings.momentum_enabled
    /\ GuardIdle
    /\ ~RateLimited
    /\ guard' = [guard EXCEPT !.pc = "fetch", !.lastBtcCheckAt = now,
                              !.atStart = GuardSnapshot(guard, alertLevel)]
    /\ UNCHANGED <<trades, state, now, alertLevel, settings, cooldown, recentExits, slow, fast, audit, proc, send, store, scan>>

\* Faulty variant of GuardSkipped: a skipped cycle restarts the accumulator.
GuardSkipped_ResetsCount(g) == [g EXCEPT !.pc = "skipped", !.stableHoursCount = 0]

\* if (!btcPrice) { log(...); return; }
GuardSkipped(g) == [g EXCEPT !.pc = "skipped"]

\* fetchBtcPrice returned null (or 0): the cycle is skipped.
GuardFetchFail ==
    /\ Alive
    /\ guard.pc = "fetch"
    /\ guard' = GuardSkipped(guard)
    /\ UNCHANGED <<trades, state, now, alertLevel, settings, cooldown, recentExits, slow, fast, audit, proc, send, store, scan>>

\* The guard's memory after recordBtcPrice and recordBtcVolatility.
GuardRecorded(g, price, t) ==
    LET prices == recordBtcPrice(g.btcPriceHistory, price, t)
        vols   == VolatilityAfter(g.btcVolatilityHistory, prices, price, t)
    IN  [g EXCEPT !.btcPriceHistory = prices,
                  !.btcVolatilityHistory = vols,
                  !.baselineVolatility = BaselineAfter(g.baselineVolatility, vols, prices)]

\* Faulty variant of SetAlertChanges: the accumulator is left as it was.
SetAlertChanges_KeepsCount(g, level, t) ==
    [g EXCEPT !.pc = "notify",
              !.alertTriggeredAt = IF level = "NONE" THEN Null ELSE t,
              !.sent = @ + 1]

\* setAlert(level, reason) when level differs from the level in force, up to
\* await notify: the level, the timestamp, the accumulator, one notification.
SetAlertChanges(g, level, t) ==
    [g EXCEPT !.pc = "notify",
              !.alertTriggeredAt = IF level = "NONE" THEN Null ELSE t,
              !.stableHoursCount = 0,
              !.sent = @ + 1]

\* Faulty variant of AllClearDue: the accumulator is compared with twice the hours.
AllClearDue_Double(g) == g.stableHoursCount >= 2 * ALL_CLEAR_STABLE_HOURS

\* Faulty variant of AllClearDue: one stable cycle is enough.
AllClearDue_AnyStable(g) == g.stableHoursCount >= CHECK_INTERVAL_MS

\* checkIfStable: stableHoursCount >= ALL_CLEAR_STABLE_HOURS
AllClearDue(g) == g.stableHoursCount >= ALL_CLEAR_STABLE_HOURS

\* Faulty variant of GuardSaved: the document is not written.
GuardSaved_NotWritten(g, level) == [g EXCEPT !.pc = "idle"]

\* The cycle ends with saveGuardState().
GuardSaved(g, level) == [g EXCEPT !.pc = "idle", !.file = GuardDocument(g, level)]

\* The cycle ends without saveGuardState().
GuardReturned(g) == [g EXCEPT !.pc = "idle"]

\* runMarketGuardCheck from the return of fetchBtcPrice to the end of the cycle,
\* or to the await of notify inside setAlert.
GuardCheck(btcPrice) ==
    /\ Alive
    /\ guard.pc = "fetch"
    /\ LET g      == GuardRecorded([guard EXCEPT !.atStart = Null], btcPrice, now)
           level  == ThresholdLevel(g.btcPriceHistory, g.btcVolatilityHistory,
                                    g.baselineVolatility, now)
           stable == [g EXCEPT !.stableHoursCount = @ + CHECK_INTERVAL_MS]
       IN  IF level # "NONE"
           THEN IF level = alertLevel
                THEN guard' = GuardReturned(g) /\ alertLevel' = alertLevel
                ELSE guard' = SetAlertChanges(g, level, now) /\ alertLevel' = level
           ELSE IF alertLevel = "NONE"
                THEN guard' = GuardSaved(g, alertLevel) /\ alertLevel' = alertLevel
           ELSE IF ~IsStable(g.btcPriceHistory, now)
                THEN /\ guard' = GuardSaved([g EXCEPT !.stableHoursCount = 0], alertLevel)
                     /\ alertLevel' = alertLevel
           ELSE IF AllClearDue(stable)
                THEN guard' = SetAlertChanges(stable, "NONE", now) /\ alertLevel' = "NONE"
           ELSE guard' = GuardSaved(stable, alertLevel) /\ alertLevel' = alertLevel
    /\ UNCHANGED <<trades, state, now, settings, cooldown, recentExits, slow, fast, audit, proc, send, store, scan>>

\* notify returned: setAlert ends with saveGuardState().
GuardNotified ==
    /\ Alive
    /\ guard.pc = "notify"
    /\ guard' = GuardSaved(guard, alertLevel)
    /\ UNCHANGED <<trades, state, now, alertLevel, settings, cooldown, recentExits, slow, fast, audit, proc, send, store, scan>>

GuardNext ==
    \/ GuardTick
    \/ GuardRateLimited
    \/ GuardStart
    \/ GuardFetchFail
    \/ \E btcPrice \in BtcPrices : GuardCheck(btcPrice)
    \/ GuardNotified

GuardSpec == GuardInit /\ [][GuardNext]_vars

-----------------------------------------------------------------------------
(* Properties *)

Created == 1..Len(trades)

IsActive(i) == trades[i].status = "active"

\* The step in which a monitor's pending executeSell for position i ends, and
\* the order it ends.
SlowSellEnds(i) == slow.pc = "sell" /\ slow.order.id = i /\ slow' # slow
FastSellEnds(i) == fast.pc = "sell" /\ fast.order.id = i /\ fast' # fast
SellEnds(i, o) == (SlowSellEnds(i) /\ o = slow.order) \/ (FastSellEnds(i) /\ o = fast.order)
SellEndsOk(i, o) == SellEnds(i, o) /\ audit'[i].submitted = audit[i].submitted + 1
SellEndsFailed(i, o) == SellEnds(i, o) /\ audit'[i].submitted = audit[i].submitted

\* A step in which closeTrade is called for position i.
CloseTradeCalled(i) == audit'[i].closeCalls = audit[i].closeCalls + 1

\* C1: when the slow and the fast monitor have seen the same exit condition for
\* one position and both reach closeTrade, the second call leaves the aggregate
\* state as the first left it (one trade_count increment, the P&L added once)
\* and does not return normally (AlreadyClosed).
C1_SecondCloseRejected ==
    [][\A i \in Created :
          (/\ CloseTradeCalled(i)
           /\ ~IsActive(i)
           /\ \E o \in {slow.order, fast.order} :
                 /\ SellEnds(i, o)
                 /\ o.reason = trades[i].tx_signature_exit[3]
                 /\ o.price_usd = trades[i].exit_price)
          => /\ state' = state
             /\ audit'[i].closeOk = audit[i].closeOk]_vars

\* C2: the tokens passed to confirmed sell transactions of a position never
\* add up to more than the position's original token quantity.
C2_NeverOversold ==
    \A i \in Created : audit[i].sold <= audit[i].original

\* C3: closeTrade on a position that is not active fails (no normal return) and
\* leaves the position record and the aggregate state unchanged.
C3_CloseInactiveFails ==
    [][\A i \in Created :
          (CloseTradeCalled(i) /\ ~IsActive(i))
          => /\ audit'[i].closeOk = audit[i].closeOk
             /\ trades'[i] = trades[i]
             /\ state' = state]_vars

\* C4: in every ledger state, a position is active exactly when its exit_time
\* is null.
C4_ActiveIffNoExitTime ==
    \A i \in Created : IsActive(i) <=> (trades[i].exit_time = Null)

\* C4 witness: a position has been closed after a partial exit.
C4_Witness ==
    \E i \in Created :
        /\ ~IsActive(i)
        /\ trades[i].exit_time # Null
        /\ trades[i].partial_exit_executed

\* C5: a status of completed or stopped never changes again.
C5_ClosedStatusFinal ==
    [][\A i \in Created : ~IsActive(i) => trades'[i].status = trades[i].status]_vars

\* C6: highest_price is at least entry_price, and it does not decrease from
\* one ledger state to the next while the position is active.
C6_HighestMonotone ==
    /\ [](\A i \in Created : trades[i].highest_price >= trades[i].entry_price)
    /\ [][\A i \in Created :
             (IsActive(i) /\ trades'[i].status = "active")
             => trades'[i].highest_price >= trades[i].highest_price]_vars

\* C6 witness: an active position whose last observed price is below the
\* highest price recorded for it.
C6_Witness ==
    \E i \in Created :
        /\ IsActive(i)
        /\ trades[i].highest_price > trades[i].entry_price
        /\ trades[i].pnl_percent < PnlPercent(trades[i].highest_price, trades[i].entry_price)

\* C7: a failed executeSell leaves the ledger and the aggregate state as they
\* were.
C7_FailedSellChangesNothing ==
    [][\A i \in Created : \A o \in {slow.order, fast.order} :
          SellEndsFailed(i, o) => (trades' = trades /\ state' = state)]_vars

\* C7 witness: a sell has failed for a position that is still active, with its
\* whole quantity and no partial exit.
C7_Witness ==
    \E i \in Created :
        /\ audit[i].failed
        /\ audit[i].submitted = 0
        /\ IsActive(i)
        /\ ~trades[i].partial_exit_executed
        /\ trades[i].token_amount = audit[i].original

\* C8: while every observed price is at or below the stop loss, an active
\* position is closed at some point.
C8_StopLossEventuallyCloses ==
    \A i \in Ids : (i \in Created /\ IsActive(i)) ~> (i \in Created /\ ~IsActive(i))

\* C8 witness: a position is closed after a sell for it had failed.
C8_Witness ==
    \E i \in Created : ~IsActive(i) /\ audit[i].failed /\ trades[i].status = "stopped"

\* C9: a confirmed executeSell with a percentage below 100 on an active
\* position leaves it active and partially exited, holding the remainder; only
\* a percentage of 100 closes.
C9_Below100IsPartial ==
    [][\A i \in Created : \A o \in {slow.order, fast.order} :
          (SellEndsOk(i, o) /\ IsActive(i) /\ o.sellPercent < 100)
          => /\ trades'[i].status = "active"
             /\ trades'[i].partial_exit_executed
             /\ trades'[i].token_amount = o.remainingTokens
             /\ ~CloseTradeCalled(i)]_vars

\* C10: partial_exit_executed never goes back to false, no partial sell is
\* confirmed for a position already partially exited, and every sell confirmed
\* after the partial exit is for the quantity the ledger holds for the position.
C10_OnePartialThenResidual ==
    [][\A i \in Created :
          /\ trades[i].partial_exit_executed => trades'[i].partial_exit_executed
          /\ \A o \in {slow.order, fast.order} :
                (SellEndsOk(i, o) /\ trades[i].partial_exit_executed)
                => /\ ~IsPartialOrder(o)
                   /\ o.tokensToSell = trades[i].token_amount]_vars


\* The rules of the monitors as conditions on a position copy and a price.
RedMatches(trade) == alertLevel = "RED" /\ trade.strategy = "momentum"
TightenedMatches(trade, price) ==
    /\ alertLevel \in {"ORANGE", "RED"}
    /\ trade.strategy = "momentum"
    /\ 2 * PnlPercent(price, trade.entry_price) <= -trade.stop_loss_percent
TrailingMatches(trade, price) ==
    /\ settings.trailing_stop_enabled
    /\ price > trade.entry_price
    /\ (trade.highest_price - price) * 100 >= settings.trailing_stop_percent * trade.highest_price
StopLossMatches(trade, price) ==
    PnlPercent(price, trade.entry_price) <= -trade.stop_loss_percent
StrategyReasons == {"partial_target", "final_target", "mc_target", "target", "sell_pressure"}

\* The step in which the slow monitor's evaluation of a position issues a sell.
SlowIssues == slow.pc = "fetch" /\ slow'.pc = "sell"

\* C11: one slow-monitor evaluation of a position issues at most one sell, and
\* the sell's reason is that of the first rule that matches in the order RED
\* force-close, tightened stop, trailing stop, stop loss, strategy rule.
C11_FirstMatchWins ==
    /\ [][SlowIssues =>
            LET trade == Head(slow.active)
                o     == slow'.order
            IN  /\ o.id = trade.id
                /\ IF RedMatches(trade) THEN o.reason = "market_guard_red"
                   ELSE IF TightenedMatches(trade, o.price_usd) THEN o.reason = "market_guard_orange"
                   ELSE IF TrailingMatches(trade, o.price_usd) THEN o.reason = "trailing_stop"
                   ELSE IF StopLossMatches(trade, o.price_usd) THEN o.reason = "stop_loss"
                   ELSE o.reason \in StrategyReasons]_vars
    /\ [][(slow.pc = "sell" /\ slow' # slow) =>
            /\ slow'.pc \in {"fetch", "idle"}
            /\ slow'.pc = "fetch" => Head(slow'.active).id # slow.order.id]_vars

\* C11 witness: a RED force-close is pending for a position whose price is also
\* at its stop loss.
C11_Witness ==
    /\ slow.pc = "sell"
    /\ slow.order.reason = "market_guard_red"
    /\ StopLossMatches(Head(slow.active), slow.order.price_usd)

\* The copies of positions the monitors hold, and the step in which the fast
\* monitor issues a sell.
MonitoredCopies ==
    {slow.active[k] : k \in 1..Len(slow.active)} \cup {fast.active[k] : k \in 1..Len(fast.active)}
FastIssues == fast'.pc = "sell" /\ fast' # fast

\* C12: under RED, for a momentum position, the rule of either monitor is a
\* 100% sell with reason market_guard_red whatever the price, the sell issued is
\* for the whole quantity of the copy, and the evaluation leaves the cooldown
\* register as it was.
C12_RedForceClose ==
    /\ [](\A trade \in MonitoredCopies : \A p \in Prices, mc \in McValues, bp \in BuyPressures :
            RedMatches(trade) =>
               LET token == [price_usd |-> p, market_cap |-> mc, buy_pressure |-> bp] IN
               /\ SlowRule(trade, token) = Sell("market_guard_red", 100)
               /\ FastRule(trade, p) = Sell("market_guard_red", 100)
               /\ CooldownAfter(SlowRule(trade, token), trade) = cooldown
               /\ CooldownAfter(FastRule(trade, p), trade) = cooldown)
    /\ [][(SlowIssues /\ slow'.order.reason = "market_guard_red") =>
            /\ RedMatches(Head(slow.active))
            /\ slow'.order.sellPercent = 100
            /\ slow'.order.tokensToSell = Head(slow.active).token_amount
            /\ cooldown' = cooldown]_vars
    /\ [][(FastIssues /\ fast'.order.reason = "market_guard_red") =>
            /\ RedMatches(Head(fast'.active))
            /\ fast'.order.sellPercent = 100
            /\ fast'.order.tokensToSell = Head(fast'.active).token_amount
            /\ cooldown' = cooldown]_vars

\* C12 witness: both monitors have a RED force-close pending for a position in
\* profit, and the cooldown register holds nothing.
C12_Witness ==
    /\ slow.pc = "sell" /\ slow.order.reason = "market_guard_red"
    /\ fast.pc = "sell" /\ fast.order.reason = "market_guard_red"
    /\ slow.order.price_usd > Head(slow.active).entry_price
    /\ fast.order.price_usd > Head(fast.active).entry_price
    /\ \A t \in Tokens : cooldown.stopLossCooldowns[t] = Null
    /\ cooldown.recentStopLosses = <<>>

\* C13: when a position of any strategy is closed with reason stop_loss, its
\* status becomes stopped and the cooldown register holds a last-stop-loss
\* timestamp for its token.
C13_StopLossRecordsCooldown ==
    [][\A i \in Created : \A o \in {slow.order, fast.order} :
          (SellEndsOk(i, o) /\ IsActive(i) /\ o.reason = "stop_loss")
          => /\ trades'[i].status = "stopped"
             /\ cooldown'.stopLossCooldowns[trades[i].token_address] # Null]_vars

\* C14: a stop-loss detection whose sell fails records nothing: after a failed
\* sell for a position no sell has ever succeeded for, the cooldown register
\* holds no timestamp for its token unless another position of that token is
\* closed, and the recent-stop list is empty unless some position is closed.
C14_CooldownOnlyWhenRealized ==
    [][\A i \in Created : \A o \in {slow.order, fast.order} :
          (SellEndsFailed(i, o) /\ audit[i].submitted = 0)
          => /\ (\A j \in Created : trades[j].token_address = trades[i].token_address => IsActive(j))
                => cooldown'.stopLossCooldowns[trades[i].token_address] = Null
             /\ (\A j \in Created : IsActive(j))
                => (cooldown'.recentStopLosses = <<>> /\ cooldown'.consecutiveStopPauseUntil = Null)]_vars

\* C15: the guard always has one level of NONE, YELLOW, ORANGE, RED, also right
\* after restoring a saved document, and no step of a monitor or of the sell
\* executor changes the level: a step that changes it leaves the ledger, the
\* aggregate state, the cooldowns and both monitors as they were.
C15_OneLevelGuardOnly ==
    /\ [](alertLevel \in AlertLevels)
    /\ [][alertLevel' # alertLevel =>
            /\ trades' = trades /\ state' = state /\ audit' = audit
            /\ cooldown' = cooldown /\ recentExits' = recentExits
            /\ slow' = slow /\ fast' = fast]_vars

\* C15 witness: the slow monitor has a RED force-close pending, the fast
\* monitor a sell of its own, and the guard has since left RED.
C15_Witness ==
    /\ slow.pc = "sell" /\ slow.order.reason = "market_guard_red"
    /\ fast.pc = "sell"
    /\ alertLevel \in {"NONE", "YELLOW"}

Severity(level) ==
    CASE level = "NONE" -> 0 [] level = "YELLOW" -> 1 [] level = "ORANGE" -> 2 [] OTHER -> 3

\* C16 as stated: from a level other than NONE the next change is to a more
\* severe level, or to NONE with at least 4 accumulated stable hours.
C16_EscalateOrAllClear ==
    [][(alertLevel # "NONE" /\ alertLevel' # alertLevel) =>
          \/ Severity(alertLevel') > Severity(alertLevel)
          \/ /\ alertLevel' = "NONE"
             /\ guard.stableHoursCount + CHECK_INTERVAL_MS >= ALL_CLEAR_STABLE_HOURS]_vars

\* C16 amended: from a level other than NONE the next change is to another
\* alert level, more severe or less severe, or to NONE with at least 4
\* accumulated stable hours; the level entered is never NONE before that.
C16_AnyAlertOrAllClear ==
    [][(alertLevel # "NONE" /\ alertLevel' # alertLevel) =>
          \/ alertLevel' \in {"YELLOW", "ORANGE", "RED"}
          \/ /\ alertLevel' = "NONE"
             /\ guard.stableHoursCount + CHECK_INTERVAL_MS >= ALL_CLEAR_STABLE_HOURS]_vars

\* C16 witness: the level has just gone from RED to YELLOW; the document on
\* disk still holds RED.
C16_Witness ==
    /\ guard.pc = "notify"
    /\ alertLevel = "YELLOW"
    /\ guard.file.exists /\ guard.file.currentAlertLevel = "RED"

\* The cycle in which the level leaves an alert for NONE: the price it recorded
\* matched no threshold, the market was stable over the last hour and half
\* hour, and the accumulator with this cycle's interval added is at least
\* ALL_CLEAR_STABLE_HOURS.
AllClearCycle ==
    /\ guard.pc = "fetch"
    /\ \E btcPrice \in BtcPrices :
         LET g == GuardRecorded(guard, btcPrice, now)
         IN  /\ guard'.btcPriceHistory = g.btcPriceHistory
             /\ guard'.btcVolatilityHistory = g.btcVolatilityHistory
             /\ ThresholdLevel(g.btcPriceHistory, g.btcVolatilityHistory,
                               g.baselineVolatility, now) = "NONE"
             /\ IsStable(g.btcPriceHistory, now)
             /\ guard.stableHoursCount + CHECK_INTERVAL_MS >= ALL_CLEAR_STABLE_HOURS

\* C17: the level changes to NONE only in a check cycle in which no RED, ORANGE
\* or YELLOW threshold matched, the stability condition held and the
\* accumulator, advanced by this cycle's interval, reached 4 hours; the
\* accumulator is zero immediately after the change.
C17_AllClearOnlyWhenStable ==
    [][alertLevel # "NONE" /\ alertLevel' = "NONE"
         => AllClearCycle /\ guard'.stableHoursCount = 0]_vars

\* The all-clear has just been decided and is being notified: the document
\* still holds the alert and the accumulator that led to it.
C17_Witness ==
    /\ alertLevel = "NONE"
    /\ guard.pc = "notify"
    /\ guard.stableHoursCount = 0
    /\ guard.file.exists
    /\ guard.file.currentAlertLevel \in {"YELLOW", "RED"}
    /\ guard.file.stableHoursCount + CHECK_INTERVAL_MS >= ALL_CLEAR_STABLE_HOURS
    /\ Len(guard.btcPriceHistory) >= 1

\* The part of the guard's state that C18 lists: the level and the time it was
\* entered, both histories, the baseline, the accumulator, the document, the
\* notifications sent.
ListedGuardState(snapshot) == [snapshot EXCEPT !.lastBtcCheckAt = Null]

\* C18 as stated: when the price fetch of a cycle fails, the cycle has changed
\* no guard state at all.  (The cycle has set lastBtcCheckAt before the fetch.)
C18_FailedFetchChangesNothing ==
    guard.pc = "skipped" => GuardSnapshot(guard, alertLevel) = guard.atStart

\* C18, amended: when the price fetch of a cycle fails, the level, the time it
\* was entered, the price and volatility histories, the baseline, the
\* accumulator and the persisted document are as before the cycle and no
\* notification was sent; the time of the last admitted check is the one thing
\* the cycle has changed.
C18_FailedFetchChangesLastCheckOnly ==
    guard.pc = "skipped"
        => /\ ListedGuardState(GuardSnapshot(guard, alertLevel)) = ListedGuardState(guard.atStart)
           /\ guard.lastBtcCheckAt # guard.atStart.lastBtcCheckAt

\* A cycle was skipped under an alert, with prices on record and stable time
\* accumulated.
C18_Witness ==
    /\ guard.pc = "skipped"
    /\ alertLevel # "NONE"
    /\ Len(guard.btcPriceHistory) >= 1
    /\ guard.stableHoursCount > 0
    /\ guard.sent >= 1

\* C19: every change of the alert level in a check cycle sends exactly one
\* notification and every notification belongs to a change of level, so that
\* the notifications sent equal the changes of level; a cycle that re-qualifies
\* the level in force sends none; and once setAlert has returned, the
\* document holds the state in memory with the new level.
C19_OneNotificationPerChange ==
    /\ [][(alertLevel' # alertLevel) <=> (guard'.sent = guard.sent + 1)]_vars
    /\ [][(alertLevel' = alertLevel) <=> (guard'.sent = guard.sent)]_vars
    /\ [][guard.pc = "notify" /\ guard'.pc # "notify"
            => guard'.file = GuardDocument(guard', alertLevel')]_vars
    /\ [](guard.sent >= 1 /\ GuardIdle
            => guard.file.exists /\ guard.file.currentAlertLevel = alertLevel)

\* Two changes of level were notified and saved, and a later cycle has
\* re-qualified the alert in force: it recorded its price and returned.
C19_Witness ==
    /\ GuardIdle
    /\ guard.sent = 2
    /\ alertLevel # "NONE"
    /\ guard.file.exists
    /\ guard.file.currentAlertLevel = alertLevel
    /\ Len(guard.btcPriceHistory) > Len(guard.file.btcPriceHistory)

\* C20: at the end of every check cycle whose price fetch succeeded, the
\* persisted document equals the state in memory: the price history with the
\* new price, the volatility history, the baseline, the level, the time it was
\* entered and the accumulator; also when a threshold matched the level
\* already in force.
C20_DocumentEqualsMemory ==
    [][guard.pc \in {"fetch", "notify"} /\ guard'.pc = "idle"
         => guard'.file = GuardDocument(guard', alertLevel')]_vars

------------------------------------------------------------------------------
(* Market data without a price.  normalizePair sets price_usd to              *)
(* parseFloat(p.priceUsd || 0): a pair that carries no priceUsd is a record   *)
(* with price 0, and fetchTokenData returns it like any other.                *)

FeedPrices == {NoPrice, 200}

FeedNext == NextWith(FeedPrices)

FeedSpec == Init /\ [][FeedNext]_vars

\* C21: missing market data never causes an exit: neither monitor issues a
\* sell for a position from a record that has no usable price.
C21_NoSellWithoutPrice ==
    /\ slow.pc = "sell" => slow.order.price_usd # NoPrice
    /\ fast.pc = "sell" => fast.order.price_usd # NoPrice

\* The reasons of slow-monitor rules 1, 2 and 4.
GuardOrStopReasons == {"market_guard_red", "market_guard_orange", "stop_loss"}

\* C22: the fast monitor issues only 100% sells of the whole quantity with a
\* reason of rules 1, 2 and 4, the reason being that of the first of these
\* rules that matches;
\* on every copy and price its rule is the slow monitor's rule where that one
\* gives one of the three reasons and no sell otherwise; and none of its steps
\* changes a highest_price.
C22_FastIsRules124 ==
    /\ [][FastIssues =>
            LET trade == Head(fast'.active)
                o     == fast'.order
            IN  /\ o.id = trade.id
                /\ o.sellPercent = 100
                /\ ~IsPartialOrder(o)
                /\ o.tokensToSell = trade.token_amount
                /\ o.price_usd # NoPrice
                /\ IF RedMatches(trade) THEN o.reason = "market_guard_red"
                   ELSE IF TightenedMatches(trade, o.price_usd) THEN o.reason = "market_guard_orange"
                   ELSE StopLossMatches(trade, o.price_usd) /\ o.reason = "stop_loss"]_vars
    /\ [](\A trade \in MonitoredCopies : \A p \in Prices, mc \in McValues, bp \in BuyPressures :
            LET d == SlowRule(trade, [price_usd |-> p, market_cap |-> mc, buy_pressure |-> bp])
            IN  FastRule(trade, p) = IF d.reason \in GuardOrStopReasons THEN d ELSE NoSell)
    /\ [][fast' # fast =>
            \A i \in Created : trades'[i].highest_price = trades[i].highest_price]_vars

\* C22 witness: the fast monitor has issued the tightened stop for a position
\* whose price is also at its stop loss and whose highest price is above its
\* entry.
C22_Witness ==
    /\ fast.pc = "sell"
    /\ fast.order.reason = "market_guard_orange"
    /\ StopLossMatches(Head(fast.active), fast.order.price_usd)
    /\ Head(fast.active).highest_price > Head(fast.active).entry_price

------------------------------------------------------------------------------
(* Start and shutdown of the process.  The handlers of SIGTERM and SIGINT set *)
(* isRunning to false and arm a timer that calls process.exit (after 5 s and  *)
(* 2 s); they are installed before main() is called.                          *)

ShutPrices == {80, 200}

ShutInit ==
    /\ InitBot
    /\ alertLevel = "NONE"
    /\ settings = DefaultSettings(FALSE)
    /\ guard = GuardUnobserved
    /\ proc = ProcStarting

\* main reaches `isRunning = true` and starts the loops.
MainStarted ==
    /\ Alive
    /\ proc.main = "starting"
    /\ proc' = [proc EXCEPT !.main = "running", !.isRunning = TRUE]
    /\ UNCHANGED <<trades, state, now, alertLevel, settings, cooldown, recentExits, slow, fast, audit, guard, send, store, scan>>

\* process.on('SIGTERM' | 'SIGINT'): isRunning = false; setTimeout(exit).
Signal ==
    /\ Alive
    /\ ~proc.signalled
    /\ proc' = [proc EXCEPT !.isRunning = FALSE, !.signalled = TRUE]
    /\ UNCHANGED <<trades, state, now, alertLevel, settings, cooldown, recentExits, slow, fast, audit, guard, send, store, scan>>

\* The handler's timer fires: process.exit(0).
ExitTimer ==
    /\ Alive
    /\ proc.signalled
    /\ proc' = [proc EXCEPT !.exited = TRUE]
    /\ UNCHANGED <<trades, state, now, alertLevel, settings, cooldown, recentExits, slow, fast, audit, guard, send, store, scan>>

\* Inside a pending executeSell: sendRawTransaction has returned, the
\* transaction is on its way, and signAndSendTransaction awaits its confirmation.
SlowTxBroadcast ==
    /\ Alive
    /\ slow.pc = "sell"
    /\ ~slow.order.broadcast
    /\ slow' = [slow EXCEPT !.order.broadcast = TRUE]
    /\ UNCHANGED <<trades, state, now, alertLevel, settings, cooldown, recentExits, fast, audit, guard, proc, send, store, scan>>

FastTxBroadcast ==
    /\ Alive
    /\ fast.pc = "sell"
    /\ ~fast.order.broadcast
    /\ fast' = [fast EXCEPT !.order.broadcast = TRUE]
    /\ UNCHANGED <<trades, state, now, alertLevel, settings, cooldown, recentExits, slow, audit, guard, proc, send, store, scan>>

ShutNext ==
    \/ NextWith(ShutPrices)
    \/ MainStarted
    \/ Signal
    \/ ExitTimer
    \/ SlowTxBroadcast
    \/ FastTxBroadcast

ShutdownSpec == ShutInit /\ [][ShutNext]_vars

\* The step in which a monitor's loop starts a cycle.
CycleBegins ==
    \/ slow.pc = "idle" /\ slow'.pc = "fetch"
    \/ fast.pc = "idle" /\ fast'.pc = "prices"

\* C23: after a termination signal has been received no loop starts a new
\* cycle: every cycle begins while no shutdown has been requested.
C23_NoCycleAfterSignal ==
    [][CycleBegins => ~proc.signalled]_vars

\* C24: the process never exits while a sell whose transaction has been
\* submitted is still waiting for its ledger update.
C24_ExitDrainsSell ==
    proc.exited =>
        /\ ~(slow.pc = "sell" /\ slow.order.broadcast)
        /\ ~(fast.pc = "sell" /\ fast.order.broadcast)

------------------------------------------------------------------------------
(* The loop that drives the guard.  runMarketGuardCheck has one caller, the   *)
(* momentum scanner, which returns before the call when momentum_enabled is   *)
(* false.                                                                     *)

MomentumInit ==
    /\ InitBot
    /\ settings \in {[DefaultSettings(FALSE) EXCEPT !.momentum_enabled = b] : b \in BOOLEAN}
    /\ \E saved \in SavedDocs :
          /\ alertLevel = RestoreLevel(saved)
          /\ guard = RestoreGuard(saved, 0)
    /\ proc = ProcRunning

\* if (!settings.momentum_enabled) return;
MomentumDisabled ==
    /\ CycleMayStart
    /\ ~settings.momentum_enabled
    /\ UNCHANGED vars

MomentumNext == GuardNext \/ MomentumDisabled

\* The MOMENTUM loop is scheduled again and again.
MomentumSpec == MomentumInit /\ [][MomentumNext]_vars /\ WF_vars(GuardStart)

\* C25: the guard's check cycle is executed whether or not the momentum
\* strategy is enabled: while the process runs, a check cycle is executed at
\* some point (and so again and again).
C25_GuardCycleRegardless ==
    <>(guard.lastBtcCheckAt # Null)

------------------------------------------------------------------------------
(* wallet/custodial.js: signAndSendTransaction(swapTransaction).  A call      *)
(* deserializes and signs the transaction, then tries up to three times to    *)
(* send it and to have it confirmed.  Waits are in milliseconds.              *)

MAX_ATTEMPTS == 3
BACKOFF_MS == 2000

\* What buildSwapTransaction hands over as data.swapTransaction: a serialized
\* transaction, or undefined when the answer carried none.
Undefined == "undefined"
SwapTxs == {"txA", "txB", "txC", Undefined}

\* The signature sendRawTransaction returns for a transaction.
SignatureOf(tx) == <<"sig", tx>>

SendInit ==
    /\ InitBot
    /\ alertLevel = "NONE"
    /\ settings \in {[DefaultSettings(FALSE) EXCEPT !.paper_trading = b] : b \in BOOLEAN}
    /\ guard = GuardUnobserved
    /\ proc = ProcRunning

\* signAndSendTransaction from its call to the first await: the paper-trading
\* return, Buffer.from / deserialize / sign (which throw on a transaction that
\* is not one), and the first attempt's sendRawTransaction.
SendCall(tx) ==
    /\ send.pc \in {"idle", "returned", "thrown"}
    /\ send' = IF settings.paper_trading
               THEN [IdleSend EXCEPT !.pc = "returned", !.tx = tx, !.result = <<"PAPER_TX", now>>]
               ELSE IF tx = Undefined
               THEN [IdleSend EXCEPT !.pc = "thrown", !.tx = tx, !.result = "TypeError"]
               ELSE [IdleSend EXCEPT !.pc = "send", !.tx = tx, !.attempt = 1]
    /\ UNCHANGED <<trades, state, now, alertLevel, settings, cooldown, recentExits, slow, fast, audit, guard, proc, store, scan>>

\* Faulty variant of AttemptFailed: every wait is one interval long.
AttemptFailed_FixedWait(s, outcome) ==
    IF s.attempt = MAX_ATTEMPTS
    THEN [s EXCEPT !.pc = "thrown", !.log = Append(@, outcome), !.result = outcome]
    ELSE [s EXCEPT !.pc = "sleep", !.log = Append(@, outcome), !.slept = Append(@, BACKOFF_MS)]

\* catch (err) { if (attempt === 3) throw err; await sleep(2000 * attempt); }
AttemptFailed(s, outcome) ==
    IF s.attempt = MAX_ATTEMPTS
    THEN [s EXCEPT !.pc = "thrown", !.log = Append(@, outcome), !.result = outcome]
    ELSE [s EXCEPT !.pc = "sleep", !.log = Append(@, outcome),
                   !.slept = Append(@, BACKOFF_MS * s.attempt)]

\* sendRawTransaction threw.
SendRawThrows ==
    /\ send.pc = "send"
    /\ send' = AttemptFailed(send, "send_failed")
    /\ UNCHANGED <<trades, state, now, alertLevel, settings, cooldown, recentExits, slow, fast, audit, guard, proc, store, scan>>

\* sendRawTransaction returned the signature.
SendRawReturns ==
    /\ send.pc = "send"
    /\ send' = [send EXCEPT !.pc = "confirm"]
    /\ UNCHANGED <<trades, state, now, alertLevel, settings, cooldown, recentExits, slow, fast, audit, guard, proc, store, scan>>

\* getLatestBlockhash or confirmTransaction threw.
ConfirmThrows ==
    /\ send.pc = "confirm"
    /\ send' = AttemptFailed(send, "confirm_failed")
    /\ UNCHANGED <<trades, state, now, alertLevel, settings, cooldown, recentExits, slow, fast, audit, guard, proc, store, scan>>

\* confirmTransaction returned: return sig.
Confirmed ==
    /\ send.pc = "confirm"
    /\ send' = [send EXCEPT !.pc = "returned", !.log = Append(@, "ok"),
                            !.result = SignatureOf(send.tx)]
    /\ UNCHANGED <<trades, state, now, alertLevel, settings, cooldown, recentExits, slow, fast, audit, guard, proc, store, scan>>

\* The sleep is over: the loop's next attempt.
SleepDone ==
    /\ send.pc = "sleep"
    /\ send' = [send EXCEPT !.pc = "send", !.attempt = @ + 1]
    /\ UNCHANGED <<trades, state, now, alertLevel, settings, cooldown, recentExits, slow, fast, audit, guard, proc, store, scan>>

SendNext ==
    \/ \E tx \in SwapTxs : SendCall(tx)
    \/ SendRawThrows
    \/ SendRawReturns
    \/ ConfirmThrows
    \/ Confirmed
    \/ SleepDone

SendSpec == SendInit /\ [][SendNext]_vars

\* What holds of every call: at most three attempts; after the k-th failed
\* attempt a wait of k intervals; a reference is returned by the first attempt
\* that succeeds, which is the call's last.
AttemptsAndWaits ==
    /\ send.attempt <= MAX_ATTEMPTS
    /\ Len(send.log) <= MAX_ATTEMPTS
    /\ send.slept = [k \in 1..Len(send.slept) |-> BACKOFF_MS * k]
    /\ send.pc \in {"send", "confirm"} =>
          /\ Len(send.log) = send.attempt - 1
          /\ Len(send.slept) = send.attempt - 1
    /\ \A k \in 1..Len(send.log) : send.log[k] = "ok" => k = Len(send.log) /\ send.pc = "returned"
    /\ (send.pc = "returned" /\ ~settings.paper_trading) =>
          /\ Len(send.log) = send.attempt
          /\ send.log[send.attempt] = "ok"
          /\ send.result = SignatureOf(send.tx)
NoAttemptAfterEnd ==
    (send.pc \in {"returned", "thrown"} /\ send' # send) => send'.log = <<>> /\ send'.attempt <= 1
ThirdAttemptFailed ==
    /\ send.attempt = MAX_ATTEMPTS
    /\ Len(send.log) = MAX_ATTEMPTS
    /\ \A k \in 1..MAX_ATTEMPTS : send.log[k] # "ok"

\* C26 as stated: at most 3 attempts per call, a wait of interval x attempt
\* number after a failed attempt, the reference returned by the first attempt
\* that succeeds and no attempt after it, and a failure surfaced only after
\* the third attempt has failed.
C26_ThreeAttemptsThenFailure ==
    /\ [](AttemptsAndWaits)
    /\ [][NoAttemptAfterEnd]_vars
    /\ [](send.pc = "thrown" => ThirdAttemptFailed)

\* C26, amended: as stated, except that a failure is surfaced either after the
\* third attempt has failed or before the first attempt, when the transaction
\* handed over cannot be deserialized and signed.
C26_ThreeAttemptsOrNone ==
    /\ [](AttemptsAndWaits)
    /\ [][NoAttemptAfterEnd]_vars
    /\ [](send.pc = "thrown" =>
            \/ ThirdAttemptFailed
            \/ send.attempt = 0 /\ send.log = <<>> /\ send.tx = Undefined)

\* C26 witness: the reference is returned by the third attempt, after a failed
\* submission and a failed confirmation and waits of one and two intervals.
C26_Witness ==
    /\ send.pc = "returned"
    /\ send.log = <<"send_failed", "confirm_failed", "ok">>
    /\ send.slept = <<BACKOFF_MS, 2 * BACKOFF_MS>>
    /\ send.result = SignatureOf(send.tx)

\* The thresholds on the guard's memory g at time t.
RedThreshold(g, t) ==
    \/ DropAtLeast(getBtcDropOverWindow(g.btcPriceHistory, t, WINDOW_30M_MS), RED_BTC_DROP_30M_PCT)
    \/ VolatilitySpiked(g.baselineVolatility, g.btcVolatilityHistory)
OrangeThreshold(g, t) ==
    DropAtLeast(getBtcDropOverWindow(g.btcPriceHistory, t, WINDOW_4H_MS), ORANGE_BTC_DROP_4H_PCT)
YellowThreshold(g, t) ==
    DropAtLeast(getBtcDropOverWindow(g.btcPriceHistory, t, WINDOW_1H_MS), YELLOW_BTC_DROP_1H_PCT)

\* The step in which a check cycle goes on from a successful fetch.
GuardFetched == guard.pc = "fetch" /\ guard'.pc \in {"idle", "notify"}

\* C27: after a check cycle whose fetch succeeded and in which a threshold
\* matched, the level is the first that matches in the order RED (30-minute
\* drop or volatility spike with a baseline set), ORANGE (4-hour drop), YELLOW
\* (1-hour drop), whatever the level was before.
C27_MostSevereMatchWins ==
    [][GuardFetched =>
         IF RedThreshold(guard', now) THEN alertLevel' = "RED"
         ELSE IF OrangeThreshold(guard', now) THEN alertLevel' = "ORANGE"
         ELSE IF YellowThreshold(guard', now) THEN alertLevel' = "YELLOW"
         ELSE TRUE]_vars

\* C27 witness: RED has been raised over YELLOW by a volatility spike alone,
\* the 30-minute drop being below its threshold.
C27_Witness ==
    /\ guard.pc = "notify"
    /\ alertLevel = "RED"
    /\ guard.file.exists
    /\ guard.file.currentAlertLevel = "YELLOW"
    /\ VolatilitySpiked(guard.baselineVolatility, guard.btcVolatilityHistory)
    /\ ~DropAtLeast(getBtcDropOverWindow(guard.btcPriceHistory, now, WINDOW_30M_MS), RED_BTC_DROP_30M_PCT)

\* C28: a check cycle with a successful fetch that is not a stable cycle, a
\* threshold having matched (also the one of the level in force) or the
\* stability condition having failed, leaves the accumulator at zero.
C28_UnstableCycleResets ==
    [][(/\ GuardFetched
        /\ \/ RedThreshold(guard', now)
           \/ OrangeThreshold(guard', now)
           \/ YellowThreshold(guard', now)
           \/ ~IsStable(guard'.btcPriceHistory, now))
         => guard'.stableHoursCount = 0]_vars

\* C29: once the baseline volatility is set, no later step changes its value.
C29_BaselineSetOnce ==
    [][guard.baselineVolatility # Null
         => guard'.baselineVolatility = guard.baselineVolatility]_vars

\* A cycle has passed the rate limiter: runMarketGuardCheck goes on to fetch.
GuardAdmitted == guard.pc # "fetch" /\ guard'.pc = "fetch"

\* A call now would come less than one interval after the last admitted cycle.
WithinInterval ==
    /\ GuardIdle
    /\ guard.lastBtcCheckAt # Null
    /\ now - guard.lastBtcCheckAt < CHECK_INTERVAL_MS

\* C30: a cycle that passes the rate limiter starts at least one check interval
\* after the cycle admitted before it, and while less than one interval has
\* passed since the last admitted cycle no fetch starts and the guard's state,
\* the level in force included, stays as it is.
C30_AdmittedCyclesApart ==
    /\ [][GuardAdmitted
            => /\ guard'.lastBtcCheckAt = now
               /\ \/ guard.lastBtcCheckAt = Null
                  \/ now - guard.lastBtcCheckAt >= CHECK_INTERVAL_MS]_vars
    /\ [][WithinInterval => guard' = guard /\ alertLevel' = alertLevel]_vars

\* A second cycle is fetching, admitted exactly one interval after the first.
C30_Witness ==
    /\ guard.pc = "fetch"
    /\ guard.atStart.lastBtcCheckAt # Null
    /\ guard.lastBtcCheckAt - guard.atStart.lastBtcCheckAt = CHECK_INTERVAL_MS

-----------------------------------------------------------------------------
(* The cooldown register by itself: stop losses recorded for two tokens and
   the pause read by the momentum scanner, over two and a half hours *)

MaxCoolNow == 10
CoolTokens == {"T1", "T2"}

\* DEFAULT_STATE of cooldownStore.js: no data/cooldowns.json yet.
CoolInit ==
    /\ trades = <<>>
    /\ state = [daily_pnl_sol |-> 0, daily_reset_date |-> toDateString(0),
                total_pnl_sol |-> 0, trade_count |-> 0]
    /\ now = 0
    /\ cooldown = [stopLossCooldowns |-> [t \in CoolTokens |-> Null],
                   consecutiveStopPauseUntil |-> Null,
                   recentStopLosses |-> <<>>]
    /\ recentExits = [t \in Tokens |-> Null]
    /\ slow = IdleSlow
    /\ fast = IdleFast
    /\ audit = [i \in Ids |-> NoAudit]
    /\ send = IdleSend
    /\ store = StoreUnobserved
    /\ scan = ScanUnobserved
    /\ alertLevel = "NONE"
    /\ settings = DefaultSettings(FALSE)
    /\ guard = GuardUnobserved
    /\ proc = ProcRunning

CoolTick ==
    /\ now < MaxCoolNow
    /\ now' = now + 1
    /\ UNCHANGED <<trades, state, alertLevel, settings, cooldown, recentExits, slow, fast, audit, guard, proc, send, store, scan>>

\* recordMomentumStopLoss(tokenAddress), as a monitor calls it
CoolRecord(tokenAddress) ==
    /\ cooldown' = recordMomentumStopLoss(cooldown, tokenAddress, now)
    /\ UNCHANGED <<trades, state, now, alertLevel, settings, recentExits, slow, fast, audit, guard, proc, send, store, scan>>

\* isConsecutiveStopPauseActive(): its result
isConsecutiveStopPauseActive(cd, t) ==
    cd.consecutiveStopPauseUntil # Null /\ t < cd.consecutiveStopPauseUntil

\* Faulty variant of PauseAfterRead: a pause is cleared by any read.
PauseAfterRead_AlwaysCleared(cd, t) ==
    [cd EXCEPT !.consecutiveStopPauseUntil = Null]

\* isConsecutiveStopPauseActive(): the register after it, the pause cleared
\* by clearConsecutiveStopPause() when it is read at or after its expiry.
PauseAfterRead(cd, t) ==
    IF cd.consecutiveStopPauseUntil # Null /\ ~(t < cd.consecutiveStopPauseUntil)
    THEN [cd EXCEPT !.consecutiveStopPauseUntil = Null]
    ELSE cd

\* monitorMomentumOpportunities reaching its FAILSAFE 2 check
CoolRead ==
    /\ cooldown' = PauseAfterRead(cooldown, now)
    /\ UNCHANGED <<trades, state, now, alertLevel, settings, recentExits, slow, fast, audit, guard, proc, send, store, scan>>

CoolNext ==
    \/ CoolTick
    \/ \E tokenAddress \in CoolTokens : CoolRecord(tokenAddress)
    \/ CoolRead

CooldownSpec == CoolInit /\ [][CoolNext]_vars

\* A stop loss is recorded: the register changes while the clock stands, and
\* not by a read clearing the pause.
StopLossRecorded ==
    /\ now' = now
    /\ cooldown' # cooldown
    /\ ~(cooldown.consecutiveStopPauseUntil # Null /\ cooldown'.consecutiveStopPauseUntil = Null)

\* The recent-stop list with the current time appended and the entries older
\* than 30 minutes dropped.
RecentWithin30Min ==
    SelectSeq(Append(cooldown.recentStopLosses, now),
              LAMBDA ts : ~(ts < now - CONSECUTIVE_STOP_WINDOW_MS))

\* C31: a stop-loss recording step appends the current time to the recent-stop
\* list and drops the entries older than 30 minutes; with at least 2 left it
\* sets the pause expiry to now + 90 minutes and leaves the list empty,
\* otherwise it stores the pruned list and leaves the pause expiry as it was.
C31_RecordingStep ==
    [][StopLossRecorded =>
         IF Len(RecentWithin30Min) >= 2
         THEN /\ cooldown'.consecutiveStopPauseUntil = now + CONSECUTIVE_STOP_PAUSE_MS
              /\ cooldown'.recentStopLosses = <<>>
         ELSE /\ cooldown'.recentStopLosses = RecentWithin30Min
              /\ cooldown'.consecutiveStopPauseUntil = cooldown.consecutiveStopPauseUntil]_vars

\* C31 witness: stop losses of two tokens less than 30 minutes apart have set a
\* 90-minute pause.
C31_Witness ==
    /\ cooldown.stopLossCooldowns["T1"] = now - 1
    /\ cooldown.stopLossCooldowns["T2"] = now
    /\ cooldown.consecutiveStopPauseUntil = now + CONSECUTIVE_STOP_PAUSE_MS
    /\ cooldown.recentStopLosses = <<>>

\* C32: the pause is reported active exactly when an expiry is stored and the
\* current time is before it; a read at or after the expiry reports inactive
\* and clears the stored expiry to null, a read before it leaves the register
\* as it is, and no step clears a pause that has not expired.
C32_PauseClearedLazily ==
    /\ [](LET until == cooldown.consecutiveStopPauseUntil IN
          /\ until = Null =>
                /\ ~isConsecutiveStopPauseActive(cooldown, now)
                /\ PauseAfterRead(cooldown, now) = cooldown
          /\ (until # Null /\ now < until) =>
                /\ isConsecutiveStopPauseActive(cooldown, now)
                /\ PauseAfterRead(cooldown, now) = cooldown
          /\ (until # Null /\ now >= until) =>
                /\ ~isConsecutiveStopPauseActive(cooldown, now)
                /\ PauseAfterRead(cooldown, now) =
                      [cooldown EXCEPT !.consecutiveStopPauseUntil = Null])
    /\ [][(cooldown.consecutiveStopPauseUntil # Null /\ cooldown'.consecutiveStopPauseUntil = Null)
            => /\ now >= cooldown.consecutiveStopPauseUntil
               /\ cooldown' = [cooldown EXCEPT !.consecutiveStopPauseUntil = Null]]_vars

\* C32 witness: two stop losses at the start set the pause, and a read after
\* its 90 minutes has cleared it.
C32_Witness ==
    /\ cooldown.stopLossCooldowns["T1"] = 0
    /\ cooldown.stopLossCooldowns["T2"] = 0
    /\ now >= CONSECUTIVE_STOP_PAUSE_MS
    /\ cooldown.consecutiveStopPauseUntil = Null

-----------------------------------------------------------------------------
(* Prices at which a position that has doubled stands exactly the configured *)
(* trailing-stop percent below its highest price.                            *)

TrailPrices == {180, 200}

TrailNext == NextWith(TrailPrices)

TrailSpec == Init /\ [][TrailNext]_vars

\* C33: the slow monitor's trailing-stop rule fires only when the trailing stop
\* is enabled, the position is in profit, and the price is below the highest
\* observed price by strictly more than the configured percent.
C33_TrailingStrictlyMore ==
    [][(SlowIssues /\ slow'.order.reason = "trailing_stop") =>
          LET trade == Head(slow.active)
              price == slow'.order.price_usd
          IN  /\ settings.trailing_stop_enabled
              /\ price > trade.entry_price
              /\ (trade.highest_price - price) * 100
                    > settings.trailing_stop_percent * trade.highest_price]_vars

\* Quantities for which the split of a partial exit is computed.
MaxQuantity == 25

\* C34 as stated: after a confirmed partial exit the quantity sold is 80% of
\* the position's quantity, the quantity the ledger keeps is 20% of it, and
\* the two add up to it.
C34_Sold80Kept20 ==
    [][\A i \in Created :
          (SellEndsOk(i, slow.order) /\ IsActive(i) /\ slow.order.reason = "partial_target")
          => LET q == trades[i].token_amount IN
             /\ 10 * slow.order.tokensToSell = 8 * q
             /\ 10 * trades'[i].token_amount = 2 * q
             /\ slow.order.tokensToSell + trades'[i].token_amount = q]_vars

\* C34 amended: after a confirmed partial exit the quantity sold is 80% of the
\* position's quantity rounded down to a whole token, the ledger keeps the
\* rest (20% rounded up), and the two add up to the original quantity; so does
\* the split of every quantity, which is 80% and 20% exactly for the multiples
\* of 5.
C34_SoldFloor80KeptRest ==
    [][\A i \in Created :
          (SellEndsOk(i, slow.order) /\ IsActive(i) /\ slow.order.reason = "partial_target")
          => LET q    == trades[i].token_amount
                 sold == slow.order.tokensToSell
                 kept == trades'[i].token_amount
             IN  /\ 10 * sold <= 8 * q /\ 8 * q < 10 * (sold + 1)
                 /\ 10 * kept >= 2 * q /\ 2 * q > 10 * (kept - 1)
                 /\ sold + kept = q
                 /\ trades'[i].partial_exit_executed
                 /\ \A n \in 0..MaxQuantity :
                       /\ 10 * Floor80(n) <= 8 * n /\ 8 * n < 10 * (Floor80(n) + 1)
                       /\ n % 5 = 0 => 10 * Floor80(n) = 8 * n]_vars

\* C34 witness: a position of 7 tokens after its partial exit sold 5.
C34_Witness ==
    \E i \in Created :
        /\ IsActive(i)
        /\ trades[i].partial_exit_executed
        /\ trades[i].token_amount = 2
        /\ audit[i].submitted = 1

\* Limits a scanner may pass to isDailyLossLimitReached, in thousandths of a SOL.
LossLimits == {-5000, -100, 0, 20, 100, 5000}

\* C35: the step that takes the aggregate state into a new local day zeroes the
\* daily P&L (a close in that step then adds its own P&L, as it does to the
\* total) and keeps the total and the trade count; and the daily loss limit is
\* reported reached exactly when the daily P&L, taken as zero if the day has
\* changed since the last reset, is at or below minus the limit's absolute value.
C35_DailyRollover ==
    /\ [][state'.daily_reset_date # state.daily_reset_date =>
            /\ state'.daily_reset_date = toDateString(now)
            /\ state'.daily_pnl_sol = state'.total_pnl_sol - state.total_pnl_sol
            /\ state'.trade_count \in {state.trade_count, state.trade_count + 1}
            /\ state'.trade_count = state.trade_count =>
                  /\ state'.total_pnl_sol = state.total_pnl_sol
                  /\ state'.daily_pnl_sol = 0]_vars
    /\ [](\A limit \in LossLimits :
            LET daily == IF state.daily_reset_date = toDateString(now)
                         THEN state.daily_pnl_sol ELSE 0
            IN  isDailyLossLimitReached(state, now, limit)
                   <=> \/ (limit >= 0 /\ daily + limit <= 0)
                       \/ (limit < 0 /\ daily - limit <= 0))

\* C35 witness: a loss realized the day before is in the total and in the trade
\* count, and no longer in the daily P&L, which the loss limit reads.
C35_Witness ==
    /\ state.daily_reset_date = toDateString(now)
    /\ now >= TicksPerDay
    /\ state.daily_pnl_sol = 0
    /\ state.total_pnl_sol <= -100
    /\ state.trade_count >= 1
    /\ ~isDailyLossLimitReached(state, now, 100)

\* C36: once a position is closed, no later step changes its realized fields.
C36_ClosedFieldsFrozen ==
    [][\A i \in Created :
          ~IsActive(i) =>
             /\ trades'[i].pnl_percent = trades[i].pnl_percent
             /\ trades'[i].pnl_sol = trades[i].pnl_sol
             /\ trades'[i].exit_price = trades[i].exit_price
             /\ trades'[i].exit_time = trades[i].exit_time
             /\ trades'[i].tx_signature_exit = trades[i].tx_signature_exit
             /\ trades'[i].highest_price = trades[i].highest_price]_vars

\* C37: the consecutive-stop pause is set only when stop losses of at least two
\* distinct positions have been recorded: a single position cannot set it.
C37_PauseNeedsTwoPositions ==
    cooldown.consecutiveStopPauseUntil # Null => Len(trades) >= 2

-----------------------------------------------------------------------------
(* store/trades.js: closeTrade write by write.  The ledger and the          *)
(* aggregate state are two documents, data/trades.json and data/state.json, *)
(* each rewritten whole by writeFileSync; a write can throw, and the        *)
(* process can die between two writes and load both documents at restart.   *)

MaxCloses == 2

\* No call of closeTrade is running; `last` is how the last one ended.
StoreIdle(tradesFile, stateFile, last) ==
    [pc |-> "idle", pnlSol |-> 0, last |-> last,
     tradesFile |-> tradesFile, stateFile |-> stateFile]

\* One position created and saved, no close yet, on the day of the last reset
\* or on a later day.
StoreInit ==
    /\ \E s \in Strategies : trades = <<NewTrade(1, TradeData(s, "T1", 100, 7))>>
    /\ state = [daily_pnl_sol |-> 0, daily_reset_date |-> toDateString(0),
                total_pnl_sol |-> 0, trade_count |-> 0]
    /\ now \in 0..MaxNow
    /\ store = StoreIdle(trades, state, "none")
    /\ cooldown = [stopLossCooldowns |-> [t \in Tokens |-> Null],
                   consecutiveStopPauseUntil |-> Null,
                   recentStopLosses |-> <<>>]
    /\ recentExits = [t \in Tokens |-> Null]
    /\ slow = IdleSlow
    /\ fast = IdleFast
    /\ audit = [i \in Ids |-> NoAudit]
    /\ send = IdleSend
    /\ scan = ScanUnobserved
    /\ alertLevel = "NONE"
    /\ settings = DefaultSettings(FALSE)
    /\ guard = GuardUnobserved
    /\ proc = ProcRunning

\* closeTrade(id, exitPrice, exitTxSig, reason) up to saveTrades() inside
\* updateTrade: the record in memory is already the closed one.
CloseCall(id, exitPrice, reason) ==
    /\ store.pc = "idle"
    /\ state.trade_count < MaxCloses
    /\ CloseTradeAccepts(trades, id)
    /\ LET i == findIndex(trades, id)
           closed == ClosedRecord(trades[i], exitPrice, <<"sig", reason>>, reason, now)
       IN  /\ trades' = [trades EXCEPT ![i] = closed]
           /\ store' = [store EXCEPT !.pc = "saveTrades", !.pnlSol = closed.pnl_sol]
    /\ UNCHANGED <<state, now, alertLevel, settings, cooldown, recentExits, slow, fast, audit, guard, proc, send, scan>>

\* writeFileSync throws in saveTrades or in saveState: closeTrade ends there.
SaveThrows ==
    /\ store.pc \in {"saveTrades", "saveReset", "saveState"}
    /\ store' = [store EXCEPT !.pc = "idle", !.last = "thrown"]
    /\ UNCHANGED <<trades, state, now, alertLevel, settings, cooldown, recentExits, slow, fast, audit, guard, proc, send, scan>>

\* saveTrades() returns; resetDailyIfNeeded() zeroes the daily P&L on a new day
\* and goes to its saveState(), or else the counters are updated.
SaveTradesOk ==
    /\ store.pc = "saveTrades"
    /\ IF resetDailyIfNeeded(state, now) # state
       THEN /\ state' = resetDailyIfNeeded(state, now)
            /\ store' = [store EXCEPT !.pc = "saveReset", !.tradesFile = trades]
       ELSE /\ state' = ClosedState(state, store.pnlSol, now)
            /\ store' = [store EXCEPT !.pc = "saveState", !.tradesFile = trades]
    /\ UNCHANGED <<trades, now, alertLevel, settings, cooldown, recentExits, slow, fast, audit, guard, proc, send, scan>>

\* saveState() of resetDailyIfNeeded returns; the counters are updated.
SaveResetOk ==
    /\ store.pc = "saveReset"
    /\ state' = ClosedState(state, store.pnlSol, now)
    /\ store' = [store EXCEPT !.pc = "saveState", !.stateFile = state]
    /\ UNCHANGED <<trades, now, alertLevel, settings, cooldown, recentExits, slow, fast, audit, guard, proc, send, scan>>

\* closeTrade's own saveState() returns, and closeTrade after it.
SaveStateOk ==
    /\ store.pc = "saveState"
    /\ store' = [store EXCEPT !.pc = "idle", !.last = "returned", !.stateFile = state]
    /\ UNCHANGED <<trades, state, now, alertLevel, settings, cooldown, recentExits, slow, fast, audit, guard, proc, send, scan>>

\* The process dies, inside closeTrade or outside, and is started again:
\* loadFromDisk reads both documents.
CrashRestart ==
    /\ store.last # "restarted"
    /\ trades' = store.tradesFile
    /\ state' = store.stateFile
    /\ store' = StoreIdle(store.tradesFile, store.stateFile, "restarted")
    /\ UNCHANGED <<now, alertLevel, settings, cooldown, recentExits, slow, fast, audit, guard, proc, send, scan>>

StoreNext ==
    \/ \E id \in Ids, exitPrice \in ShutPrices, reason \in {"stop_loss", "target"} :
          CloseCall(id, exitPrice, reason)
    \/ SaveThrows
    \/ SaveTradesOk
    \/ SaveResetOk
    \/ SaveStateOk
    \/ CrashRestart

StoreSpec == StoreInit /\ [][StoreNext]_vars

\* The positions of a ledger that are not active.
NonActive(tr) == Cardinality({i \in 1..Len(tr) : tr[i].status # "active"})

\* C38: closeTrade is all-or-nothing: whenever no call of it is running, also
\* after a write that threw and after a restart from the documents, trade_count
\* equals the number of positions that are not active, in memory and in the
\* documents.
C38_CloseAllOrNothing ==
    store.pc = "idle" =>
        /\ state.trade_count = NonActive(trades)
        /\ store.stateFile.trade_count = NonActive(store.tradesFile)

-----------------------------------------------------------------------------
(* The SCALP, MOMENTUM and BREAKOUT loops next to the monitors.  Each loop   *)
(* evaluates one token at a time: the duplicate check, then the awaits of    *)
(* the buy (buildBuyTransaction, signAndSendTransaction), then createTrade.  *)
(* Of the monitors only the closes matter here.                              *)

MaxScanTrades == 4

ScanIdle == [pc |-> "idle", token |-> "none"]

\* No position yet, every loop between two evaluations.
ScanInit ==
    /\ trades = <<>>
    /\ state = [daily_pnl_sol |-> 0, daily_reset_date |-> toDateString(0),
                total_pnl_sol |-> 0, trade_count |-> 0]
    /\ now = 0
    /\ scan = [s \in Strategies |-> ScanIdle]
    /\ store = StoreUnobserved
    /\ cooldown = [stopLossCooldowns |-> [t \in Tokens |-> Null],
                   consecutiveStopPauseUntil |-> Null,
                   recentStopLosses |-> <<>>]
    /\ recentExits = [t \in Tokens |-> Null]
    /\ slow = IdleSlow
    /\ fast = IdleFast
    /\ audit = [i \in Ids |-> NoAudit]
    /\ send = IdleSend
    /\ alertLevel = "NONE"
    /\ settings = DefaultSettings(FALSE)
    /\ guard = GuardUnobserved
    /\ proc = ProcRunning

\* evaluate...Token passes `if (hasActiveTradeForToken(token.address, STRATEGY))
\* return` and its other checks, and execute...Buy awaits the buy.
ScanEvaluate(strategy, tokenAddress) ==
    /\ scan[strategy].pc = "idle"
    /\ Len(trades) < MaxScanTrades
    /\ ~hasActiveTradeForToken(trades, tokenAddress, strategy)
    /\ scan' = [scan EXCEPT ![strategy] = [pc |-> "buy", token |-> tokenAddress]]
    /\ UNCHANGED <<trades, state, now, alertLevel, settings, cooldown, recentExits, slow, fast, audit, guard, proc, send, store>>

\* The buy throws: execute...Buy logs it, and the loop goes on.
ScanBuyFails(strategy) ==
    /\ scan[strategy].pc = "buy"
    /\ scan' = [scan EXCEPT ![strategy] = ScanIdle]
    /\ UNCHANGED <<trades, state, now, alertLevel, settings, cooldown, recentExits, slow, fast, audit, guard, proc, send, store>>

\* The buy is confirmed: createTrade({strategy: STRATEGY, token_address, ...}).
ScanBuyOk(strategy, entryPrice, tokenAmount) ==
    /\ scan[strategy].pc = "buy"
    /\ trades' = Append(trades, NewTrade(Len(trades) + 1,
                     TradeData(strategy, scan[strategy].token, entryPrice, tokenAmount)))
    /\ scan' = [scan EXCEPT ![strategy] = ScanIdle]
    /\ UNCHANGED <<state, now, alertLevel, settings, cooldown, recentExits, slow, fast, audit, guard, proc, send, store>>

\* A monitor's sell of an active position ends in closeTrade.
MonitorCloses(id, exitPrice, reason) ==
    /\ CloseTradeAccepts(trades, id)
    /\ LET i == findIndex(trades, id) IN
       /\ trades[i].status = "active"
       /\ trades' = [trades EXCEPT ![i] = ClosedRecord(trades[i], exitPrice, <<"sig", reason>>, reason, now)]
       /\ state' = ClosedState(state, trades[i].amount_sol * PnlPercent(exitPrice, trades[i].entry_price), now)
    /\ UNCHANGED <<now, alertLevel, settings, cooldown, recentExits, slow, fast, audit, guard, proc, send, store, scan>>

ScanNext ==
    \/ \E strategy \in Strategies, tokenAddress \in Tokens : ScanEvaluate(strategy, tokenAddress)
    \/ \E strategy \in Strategies : ScanBuyFails(strategy)
    \/ \E strategy \in Strategies, e \in EntryPrices, a \in TokenAmounts : ScanBuyOk(strategy, e, a)
    \/ \E id \in 1..MaxScanTrades, exitPrice \in ShutPrices :
          MonitorCloses(id, exitPrice, IF exitPrice < 100 THEN "stop_loss" ELSE "target")

ScanSpec == ScanInit /\ [][ScanNext]_vars

\* C39: the ledger never holds two active positions of the same token and
\* strategy, however the three scanner loops and the closes interleave.
C39_OneActivePerTokenStrategy ==
    \A i \in 1..Len(trades) : \A j \in 1..Len(trades) :
        (/\ i # j
         /\ trades[i].status = "active"
         /\ trades[j].status = "active"
         /\ trades[i].token_address = trades[j].token_address)
        => trades[i].strategy # trades[j].strategy

\* C39 witness: two strategies hold the same token, one of them after an
\* earlier position of the same token and strategy was closed, while the third
\* loop has passed its duplicate check for that token and awaits its buy.
C39_Witness ==
    /\ \E i \in 1..Len(trades) : \E j \in 1..Len(trades) : \E k \in 1..Len(trades) :
          /\ i < j
          /\ trades[i].status # "active" /\ trades[j].status = "active"
          /\ trades[i].strategy = trades[j].strategy
          /\ trades[i].token_address = trades[j].token_address
          /\ trades[k].status = "active" /\ trades[k].strategy # trades[j].strategy
          /\ trades[k].token_address = trades[j].token_address
    /\ \E s \in Strategies : scan[s].pc = "buy" /\ ~hasActiveTradeForToken(trades, scan[s].token, s)

-----------------------------------------------------------------------------
(* A calm market after an alert: the momentum loop calls the guard once per  *)
(* check interval, every call is admitted, every fetch returns the same      *)
(* price, so that every cycle is a stable one and no threshold matches.      *)

MaxCalmNow == 48
\* fetchBtcPrice() returns the price of the last saved sample.
CalmPrice == CalmPrices[Len(CalmPrices)].price

\* data/btc_guard.json written under an alert, the accumulator at zero or two
\* stable cycles before the all-clear.
CalmDocs ==
    { GuardDoc(level, -45, stable, CalmPrices, CalmVols, CalmBaseline) :
         level \in AlertLevels \ {"NONE"}, stable \in {0, ALL_CLEAR_STABLE_HOURS - 2} }

CalmInit ==
    /\ InitBot
    /\ settings = DefaultSettings(FALSE)
    /\ \E saved \in CalmDocs :
          /\ alertLevel = RestoreLevel(saved)
          /\ guard = RestoreGuard(saved, 0)
    /\ proc = ProcRunning

\* The loop's sleep(intervalMs) once its call of the guard has returned: the
\* next interval.
CalmTick ==
    /\ now < MaxCalmNow
    /\ GuardIdle
    /\ guard.lastBtcCheckAt = now
    /\ now' = now + 1
    /\ UNCHANGED <<trades, state, alertLevel, settings, cooldown, recentExits, slow, fast, audit, guard, proc, send, store, scan>>

CalmNext ==
    \/ CalmTick
    \/ GuardRateLimited
    \/ GuardStart
    \/ GuardCheck(CalmPrice)
    \/ GuardNotified

\* The loop keeps running and every await returns.
CalmSpec ==
    /\ CalmInit
    /\ [][CalmNext]_vars
    /\ WF_vars(CalmTick)
    /\ WF_vars(GuardStart)
    /\ WF_vars(GuardCheck(CalmPrice))
    /\ WF_vars(GuardNotified)

\* C40: under an alert, when from then on every check cycle is admitted,
\* fetches a price and is stable with no threshold matching, the level becomes
\* NONE (after 48 such cycles from an accumulator at zero).
C40_AllClearEventually ==
    (alertLevel # "NONE") ~> (alertLevel = "NONE")

\* C40 witness: the all-clear given by the 48th stable cycle, the accumulator
\* having started at zero.
C40_Witness ==
    /\ alertLevel = "NONE"
    /\ guard.pc = "notify"
    /\ guard.lastBtcCheckAt = ALL_CLEAR_STABLE_HOURS - 1
    /\ Len(guard.btcPriceHistory) > 2

====
